---- MODULE Spec2Model ----
(***************************************************************************)
(* One proxied connection of microProxy: the LayerManager's run_layers     *)
(* loop (layer/manager.py) driving the layers, and the Http1Layer          *)
(* interception loop (layer/application/http1.py) with its interceptor     *)
(* and publish calls.  Streams, the HTTP/1 protocol engine (Connection)    *)
(* and the layers other than Http1Layer are not part of the sources read   *)
(* here; they are modelled from the specification's description.           *)
(***************************************************************************)
EXTENDS Integers, Sequences, FiniteSets, TLC

\* ------------------------------------------------------------------ bounds
MaxReq == 2      \* requests the source peer sends on the connection
MaxLayers == 5   \* layers run_layers starts before the model stops counting
MaxChunk == 2    \* HTTP messages one partial read of the destination returns
MaxWire == 4     \* bytes the peer of a byte stream writes in all
MaxReads == 2    \* reads and writes the owner of a byte stream issues in all
MaxTwoReq == 1   \* requests each of two concurrent connections carries

VARIABLES
    mode,            \* config["mode"] / context.mode
    http_port,       \* config["http_port"]
    https_port,      \* config["https_port"]
    layer,           \* run_layers: current_layer
    pc,              \* where the run_layers coroutine is suspended / stands
    trail,           \* layers started so far, in order
    scheme,          \* context.scheme (a Python value)
    port,            \* context.port (0 for None)
    done,            \* context.done
    src_closed,      \* context.src_stream.closed()
    dest_closed,     \* context.dest_stream.closed()
    src_fired,       \* times the source stream's close took effect
    dest_fired,      \* times the destination stream's close took effect
    req,             \* Http1Layer.req
    resp,            \* Http1Layer.resp
    switch_protocol, \* Http1Layer.switch_protocol
    src_conn_closed, \* src_conn.closed()
    dest_conn_closed,\* dest_conn.closed()
    nreq,            \* requests the source peer has sent so far
    log,             \* calls made by the layer, in order
    error,           \* the error run_layers caught ("none" if none)
    socks,           \* SocksLayer: its state, what it received and replied
    stream,          \* one byte stream: its socket, buffer, pending read, callbacks
    heap,            \* the objects of one Interceptor.request / response call
    codec,           \* one message, its JSON form and the message decoded from it
    conns,           \* two concurrent connections, each with its Http1Layer
    handler,         \* a ProxyServer's handler and its handle_stream call
    raised           \* the exception a finished coroutine holds for its caller

vars == <<raised, handler, conns, codec, heap, stream, socks, mode, http_port, https_port, layer, pc, trail, scheme, port, done,
          src_closed, dest_closed, src_fired, dest_fired, req, resp,
          switch_protocol, src_conn_closed, dest_conn_closed, nreq, log, error>>

\* ------------------------------------------------------- Python values
\* A Python value that is None, a str or a list of str.
PyNone == [t |-> "none", v |-> <<>>]
PyStr(s) == [t |-> "str", v |-> <<s>>]
PyList(l) == [t |-> "list", v |-> l]

\* ------------------------------------------------------- HTTP messages
NoReq == [r |-> 0, path |-> "", headers |-> <<>>, rw |-> FALSE]
NoResp == [code |-> 0, headers |-> <<>>, rw |-> FALSE]

Paths == <<"/a", "/b", "/c", "/d", "/e">>

ReqHeaderChoices ==
    { <<>>,
      << <<"Upgrade", "websocket">> >>,
      << <<"Upgrade", "h2c">> >>,
      << <<"Connection", "close">> >> }

RespHeaderChoices == { <<>>, << <<"Connection", "close">> >> }

HttpRequest(n, h) == [r |-> n, path |-> Paths[n], headers |-> h, rw |-> FALSE]
HttpResponse(c, h) == [code |-> c, headers |-> h, rw |-> FALSE]

\* HttpHeaders.__getitem__: the list of the values stored under key.
HttpHeaders_getitem(headers, key) ==
    LET s == SelectSeq(headers, LAMBDA kv : kv[1] = key)
    IN  [i \in 1..Len(s) |-> s[i][2]]

IsInfo(m) == m.code \in {100, 101}

\* The engine reports its connection closed after a message that carries
\* Connection: close.
ConnClose(headers) ==
    \E i \in 1..Len(headers) : headers[i] = <<"Connection", "close">>

\* What the plugin chain hands back for a message: None, a result holding
\* the rewritten message, or a result that holds no message of this kind.
PluginChoices == {"none", "rewritten", "empty"}

\* One call the layer made: ev the call, r the request it is about (its
\* position on the wire), code the response's status, path the request's
\* path, cl whether the message carries Connection: close.
EvC(e, m, c, p, k) == [ev |-> e, r |-> m, code |-> c, path |-> p, cl |-> k]
Ev(e, m, c, p) == EvC(e, m, c, p, FALSE)

\* ------------------------------------------------ the layer's local state
\* The fields a handler of Http1Layer reads and writes, threaded through the
\* calls one resumption of the coroutine makes.  exc is the exception in
\* flight ("none" if none).
Cur ==
    [req |-> req, resp |-> resp, sw |-> switch_protocol,
     sc |-> src_closed, dc |-> dest_closed, sf |-> src_fired, df |-> dest_fired,
     scc |-> src_conn_closed, dcc |-> dest_conn_closed,
     log |-> log, exc |-> "none"]

Logged(S, e) == [S EXCEPT !.log = Append(@, e)]
Raise(S, e) == [S EXCEPT !.exc = e]

\* stream.close(): idempotent, its close takes effect on an open stream only.
src_stream_close(S) ==
    [S EXCEPT !.sc = TRUE,
              !.sf = IF S.sc THEN @ ELSE @ + 1,
              !.log = Append(@, Ev("close_src", 0, IF S.sc THEN 0 ELSE 1, ""))]

dest_stream_close(S) ==
    [S EXCEPT !.dc = TRUE,
              !.df = IF S.dc THEN @ ELSE @ + 1,
              !.log = Append(@, Ev("close_dest", 0, IF S.dc THEN 0 ELSE 1, ""))]

\* Connection.start_next_cycle on both engines.
start_next_cycle(S) ==
    [S EXCEPT !.scc = FALSE, !.dcc = FALSE,
              !.log = Append(@, Ev("start_next_cycle", S.req.r, 0, ""))]

\* Interceptor.publish: a ViewerContext with path = request.path.
publish(S) ==
    Logged(S, Ev("publish", S.req.r, S.resp.code, S.req.path))

\* readonly of the source engine: Http1Layer.__init__.
src_readonly == mode = "replay"

\* `plugin_result.request if plugin_result else request` (and the same for
\* the response): msg is the original, none the message a result lacks.
PluginPick(plug, msg, none) ==
    IF plug = "none" THEN msg
    ELSE IF plug = "rewritten" THEN [msg EXCEPT !.rw = TRUE]
    ELSE none

\* A mutation of finish: a persistent connection is closed all the same.
finish_no_keep_alive(S, sp) ==
    LET P == publish(S)
    IN  IF mode = "replay" THEN dest_stream_close(src_stream_close(P))
        ELSE IF sp THEN [P EXCEPT !.sw = TRUE]
        ELSE dest_stream_close(src_stream_close(P))

\* A mutation of finish: the protocol switch is tested before the replay
\* mode.
finish_switch_first(S, sp) ==
    LET P == publish(S)
    IN  IF sp THEN [P EXCEPT !.sw = TRUE]
        ELSE IF mode = "replay" THEN dest_stream_close(src_stream_close(P))
        ELSE IF P.scc \/ P.dcc THEN dest_stream_close(src_stream_close(P))
        ELSE start_next_cycle(P)

\* Http1Layer.finish
finish(S, sp) ==
    LET P == publish(S)
    IN  IF mode = "replay" THEN dest_stream_close(src_stream_close(P))
        ELSE IF sp THEN [P EXCEPT !.sw = TRUE]
        ELSE IF P.scc \/ P.dcc THEN dest_stream_close(src_stream_close(P))
        ELSE start_next_cycle(P)

\* Http1Layer.on_request
on_request(S, request, plug) ==
    LET S1 == Logged(S, EvC("request", request.r, 0, request.path,
                            ConnClose(request.headers)))
        S2 == [S1 EXCEPT !.req = PluginPick(plug, request, NoReq),
                         !.scc = @ \/ ConnClose(request.headers)]
    IN  IF S2.req = NoReq THEN Raise(S2, "Exception")
        ELSE IF S2.dc THEN Raise(S2, "DestStreamClosedError")
        ELSE [Logged(S2, Ev("send_request", S2.req.r, 0, S2.req.path))
                 EXCEPT !.dcc = @ \/ ConnClose(S2.req.headers)]

\* A mutation of on_response: the transaction is finished before the
\* response is written to the source.
on_response_finish_first(S, response, plug) ==
    LET S1 == Logged(S, EvC("response", S.req.r, response.code, "",
                            ConnClose(response.headers)))
        S2 == [S1 EXCEPT !.resp = PluginPick(plug, response, NoResp),
                         !.dcc = @ \/ ConnClose(response.headers)]
        F  == finish(S2, FALSE)
    IN  IF S2.resp = NoResp THEN Raise(S2, "Exception")
        ELSE IF F.sc /\ ~src_readonly THEN Raise(F, "SrcStreamClosedError")
        ELSE [Logged(F, Ev("send_response", S2.req.r, S2.resp.code, ""))
                 EXCEPT !.scc = @ \/ ConnClose(S2.resp.headers)]

\* Http1Layer.on_response
on_response(S, response, plug) ==
    LET S1 == Logged(S, EvC("response", S.req.r, response.code, "",
                            ConnClose(response.headers)))
        S2 == [S1 EXCEPT !.resp = PluginPick(plug, response, NoResp),
                         !.dcc = @ \/ ConnClose(response.headers)]
    IN  IF S2.resp = NoResp THEN Raise(S2, "Exception")
        ELSE IF S2.sc /\ ~src_readonly THEN Raise(S2, "SrcStreamClosedError")
        ELSE finish([Logged(S2, Ev("send_response", S2.req.r, S2.resp.code, ""))
                        EXCEPT !.scc = @ \/ ConnClose(S2.resp.headers)],
                    FALSE)

\* Http1Layer.on_info_response
on_info_response(S, response, plug) ==
    LET S1 == Logged(S, Ev("response", S.req.r, response.code, ""))
        S2 == [S1 EXCEPT !.resp = PluginPick(plug, response, NoResp)]
    IN  IF S2.resp = NoResp THEN Raise(S2, "Exception")
        ELSE IF S2.sc /\ ~src_readonly THEN Raise(S2, "StreamClosedError")
        ELSE finish(Logged(S2, Ev("send_info_response", S2.req.r, S2.resp.code, "")),
                    TRUE)

\* Http1Layer.finished
finished(S) == S.sw \/ S.sc \/ S.dc

\* dest_conn.receive(data): the engine hands each message of the chunk, in
\* order, to its callback; it stops at the end of a final response, once the
\* protocol was switched by a 101, and when a callback raises.
RECURSIVE dest_conn_receive(_, _, _)
dest_conn_receive(S, chunk, plugs) ==
    IF chunk = <<>> \/ S.exc # "none" THEN S
    ELSE LET m == Head(chunk)
         IN  IF IsInfo(m)
             THEN LET T == on_info_response(S, m, Head(plugs))
                  IN  IF m.code = 101 THEN T
                      ELSE dest_conn_receive(T, Tail(chunk), Tail(plugs))
             ELSE on_response(S, m, Head(plugs))

\* A mutation of the except clauses: a closed destination stream is treated
\* as a closed source stream is, the error is swallowed.
process_except_dest_swallowed(S) ==
    IF S.exc = "SrcStreamClosedError"
    THEN LET T == dest_stream_close(S)
         IN  IF T.req # NoReq THEN T ELSE Raise(T, "none")
    ELSE IF S.exc = "DestStreamClosedError"
    THEN Raise(src_stream_close(S), "none")
    ELSE S

\* the except clauses of Http1Layer.process_and_return_context: the state
\* after them; exc stays set when the error is raised again.
process_except(S) ==
    IF S.exc = "SrcStreamClosedError"
    THEN LET T == dest_stream_close(S)
         IN  IF T.req # NoReq THEN T ELSE Raise(T, "none")
    ELSE IF S.exc = "DestStreamClosedError"
    THEN src_stream_close(S)
    ELSE S

\* A mutation of scheme_on_return: the scheme is left as it was.
scheme_on_return_unset(S, sch) == sch

\* the scheme the context holds when process_and_return_context returns
scheme_on_return(S, sch) ==
    IF S.sw THEN PyList(HttpHeaders_getitem(S.req.headers, "Upgrade")) ELSE sch

\* the logger call every branch of _handle_layer_error starts with
log_layer_error(S, err) == Logged(S, Ev("layer_error", 0, 0, err))

\* A mutation of _handle_layer_error: the source stream is closed whatever
\* the error is.
handle_layer_error_close_always(S, err) ==
    src_stream_close(log_layer_error(S, err))

\* _handle_layer_error, layer.src_stream being the context's source stream
handle_layer_error(S, err) ==
    LET L == log_layer_error(S, err)
    IN  IF err = "TimeoutError" THEN src_stream_close(L)
        ELSE IF err = "DestNotConnectedError" THEN L
        ELSE IF err = "DestStreamClosedError" THEN src_stream_close(L)
        ELSE IF err = "SrcStreamClosedError" THEN L
        ELSE IF err = "StreamClosedError" THEN src_stream_close(L)
        ELSE IF err = "TlsError" THEN src_stream_close(L)
        ELSE src_stream_close(L)

\* membership of a port in a Python list of ports
InList(p, l) == \E i \in 1..Len(l) : l[i] = p

\* A mutation of _next_layer: the configured ports are ignored.
next_layer_default_ports(current_layer, sch, p, d) ==
    LET http_ports == <<80>>
        https_ports == <<443>>
    IN  IF current_layer = "HttpProxyLayer" THEN "Http1Layer"
        ELSE IF current_layer \in {"SocksLayer", "TransparentLayer"}
        THEN IF InList(p, http_ports) THEN "Http1Layer"
             ELSE IF InList(p, https_ports) THEN "TlsLayer"
             ELSE "ForwardLayer"
        ELSE IF current_layer = "TlsLayer"
        THEN IF sch = PyStr("https") THEN "Http1Layer"
             ELSE IF sch = PyStr("h2") THEN "Http2Layer"
             ELSE "ForwardLayer"
        ELSE IF current_layer = "ReplayLayer"
        THEN IF sch \in {PyStr("http"), PyStr("https")} THEN "Http1Layer"
             ELSE IF sch = PyStr("h2") THEN "Http2Layer"
             ELSE "ForwardLayer"
        ELSE IF current_layer = "Http1Layer"
        THEN IF sch = PyStr("websocket") THEN "ForwardLayer"
             ELSE IF sch = PyStr("https") /\ ~d THEN "TlsLayer"
             ELSE IF sch = PyStr("http") /\ ~d THEN "Http1Layer"
             ELSE "None"
        ELSE "None"

\* A mutation of _next_layer: no fallback to ForwardLayer after TlsLayer.
next_layer_tls_no_fallback(current_layer, sch, p, d) ==
    LET http_ports == <<80>> \o http_port
        https_ports == <<443>> \o https_port
    IN  IF current_layer = "HttpProxyLayer" THEN "Http1Layer"
        ELSE IF current_layer \in {"SocksLayer", "TransparentLayer"}
        THEN IF InList(p, http_ports) THEN "Http1Layer"
             ELSE IF InList(p, https_ports) THEN "TlsLayer"
             ELSE "ForwardLayer"
        ELSE IF current_layer = "TlsLayer"
        THEN IF sch = PyStr("https") THEN "Http1Layer"
             ELSE IF sch = PyStr("h2") THEN "Http2Layer"
             ELSE "None"
        ELSE IF current_layer = "ReplayLayer"
        THEN IF sch \in {PyStr("http"), PyStr("https")} THEN "Http1Layer"
             ELSE IF sch = PyStr("h2") THEN "Http2Layer"
             ELSE "ForwardLayer"
        ELSE IF current_layer = "Http1Layer"
        THEN IF sch = PyStr("websocket") THEN "ForwardLayer"
             ELSE IF sch = PyStr("https") /\ ~d THEN "TlsLayer"
             ELSE IF sch = PyStr("http") /\ ~d THEN "Http1Layer"
             ELSE "None"
        ELSE "None"

\* A mutation of _next_layer: context.done is not looked at.
next_layer_done_ignored(current_layer, sch, p, d) ==
    LET http_ports == <<80>> \o http_port
        https_ports == <<443>> \o https_port
    IN  IF current_layer = "HttpProxyLayer" THEN "Http1Layer"
        ELSE IF current_layer \in {"SocksLayer", "TransparentLayer"}
        THEN IF InList(p, http_ports) THEN "Http1Layer"
             ELSE IF InList(p, https_ports) THEN "TlsLayer"
             ELSE "ForwardLayer"
        ELSE IF current_layer = "TlsLayer"
        THEN IF sch = PyStr("https") THEN "Http1Layer"
             ELSE IF sch = PyStr("h2") THEN "Http2Layer"
             ELSE "ForwardLayer"
        ELSE IF current_layer = "ReplayLayer"
        THEN IF sch \in {PyStr("http"), PyStr("https")} THEN "Http1Layer"
             ELSE IF sch = PyStr("h2") THEN "Http2Layer"
             ELSE "ForwardLayer"
        ELSE IF current_layer = "Http1Layer"
        THEN IF sch = PyStr("websocket") THEN "ForwardLayer"
             ELSE IF sch = PyStr("https") /\ ~d THEN "TlsLayer"
             ELSE IF sch = PyStr("http") THEN "Http1Layer"
             ELSE "None"
        ELSE "None"

\* A mutation of _next_layer: after SocksLayer or TransparentLayer the
\* https ports are tested before the http ports.
next_layer_https_first(current_layer, sch, p, d) ==
    LET http_ports == <<80>> \o http_port
        https_ports == <<443>> \o https_port
    IN  IF current_layer = "HttpProxyLayer" THEN "Http1Layer"
        ELSE IF current_layer \in {"SocksLayer", "TransparentLayer"}
        THEN IF InList(p, https_ports) THEN "TlsLayer"
             ELSE IF InList(p, http_ports) THEN "Http1Layer"
             ELSE "ForwardLayer"
        ELSE IF current_layer = "TlsLayer"
        THEN IF sch = PyStr("https") THEN "Http1Layer"
             ELSE IF sch = PyStr("h2") THEN "Http2Layer"
             ELSE "ForwardLayer"
        ELSE IF current_layer = "ReplayLayer"
        THEN IF sch \in {PyStr("http"), PyStr("https")} THEN "Http1Layer"
             ELSE IF sch = PyStr("h2") THEN "Http2Layer"
             ELSE "ForwardLayer"
        ELSE IF current_layer = "Http1Layer"
        THEN IF sch = PyStr("websocket") THEN "ForwardLayer"
             ELSE IF sch = PyStr("https") /\ ~d THEN "TlsLayer"
             ELSE IF sch = PyStr("http") /\ ~d THEN "Http1Layer"
             ELSE "None"
        ELSE "None"

\* _next_layer: the class of the layer it returns ("None" when it falls off
\* the end) ...
next_layer(current_layer, sch, p, d) ==
    LET http_ports == <<80>> \o http_port
        https_ports == <<443>> \o https_port
    IN  IF current_layer = "HttpProxyLayer" THEN "Http1Layer"
        ELSE IF current_layer \in {"SocksLayer", "TransparentLayer"}
        THEN IF InList(p, http_ports) THEN "Http1Layer"
             ELSE IF InList(p, https_ports) THEN "TlsLayer"
             ELSE "ForwardLayer"
        ELSE IF current_layer = "TlsLayer"
        THEN IF sch = PyStr("https") THEN "Http1Layer"
             ELSE IF sch = PyStr("h2") THEN "Http2Layer"
             ELSE "ForwardLayer"
        ELSE IF current_layer = "ReplayLayer"
        THEN IF sch \in {PyStr("http"), PyStr("https")} THEN "Http1Layer"
             ELSE IF sch = PyStr("h2") THEN "Http2Layer"
             ELSE "ForwardLayer"
        ELSE IF current_layer = "Http1Layer"
        THEN IF sch = PyStr("websocket") THEN "ForwardLayer"
             ELSE IF sch = PyStr("https") /\ ~d THEN "TlsLayer"
             ELSE IF sch = PyStr("http") /\ ~d THEN "Http1Layer"
             ELSE "None"
        ELSE "None"

\* ... and the scheme it leaves in the context
next_layer_scheme(current_layer, sch, p) ==
    IF current_layer \in {"SocksLayer", "TransparentLayer"}
       /\ InList(p, <<80>> \o http_port)
    THEN PyStr("http")
    ELSE sch

\* A mutation of get_first_layer: a mode it does not know is served as socks.
get_first_layer_default_socks(m) ==
    IF m = "transparent" THEN "TransparentLayer"
    ELSE IF m = "replay" THEN "ReplayLayer"
    ELSE IF m = "http" THEN "HttpProxyLayer"
    ELSE "SocksLayer"

\* get_first_layer
get_first_layer(m) ==
    IF m = "socks" THEN "SocksLayer"
    ELSE IF m = "transparent" THEN "TransparentLayer"
    ELSE IF m = "replay" THEN "ReplayLayer"
    ELSE IF m = "http" THEN "HttpProxyLayer"
    ELSE "ValueError"

\* --------------------------------------------------------------- SOCKS
\* The messages of the SOCKS5 handshake and what SocksLayer answers.
NoGreeting == [version |-> 0, methods |-> {}]
NoSocksRequest == [cmd |-> "", atyp |-> "", addr |-> "", port |-> 0]

\* SocksLayer before its first read.
SocksInit ==
    [state |-> "INIT", greeting |-> NoGreeting, request |-> NoSocksRequest,
     sent |-> <<>>, connects |-> 0, outcome |-> "", host |-> "", waited |-> 0]

\* A mutation of the greeting reply: the client's version is echoed.
socks_greeting_response_echo(g) ==
    [version |-> g.version,
     auth_type |-> IF "NO_AUTH" \in g.methods THEN "NO_AUTH"
                   ELSE "NO_SUPPORT_AUTH_METHOD"]

\* handle_greeting_request: the GreetingResponse for greeting g.
socks_greeting_response(g) ==
    [version |-> 5,
     auth_type |-> IF "NO_AUTH" \in g.methods THEN "NO_AUTH"
                   ELSE "NO_SUPPORT_AUTH_METHOD"]

\* A mutation of the command check: every command is served.
socks_command_any(cmd) == TRUE

\* handle_request_and_create_destination: the commands it serves.
socks_command_supported(cmd) == cmd = "CONNECT"

\* A mutation of the status table: errno ETIMEDOUT is a general failure.
connect_status_timeout_only(outcome) ==
    IF outcome = "connected" THEN "SUCCESS"
    ELSE IF outcome = "TimeoutError" THEN "NETWORK_UNREACHABLE"
    ELSE IF outcome \in {"ENOEXEC", "EBADF"} THEN "ADDRESS_TYPE_NOT_SUPPORTED"
    ELSE "GENERAL_FAILURE"

\* the status of the Response for an outcome of create_dest_stream: a
\* connected stream, a connect timeout, or a socket error with its errno.
connect_status(outcome) ==
    IF outcome = "connected" THEN "SUCCESS"
    ELSE IF outcome \in {"TimeoutError", "ETIMEDOUT"} THEN "NETWORK_UNREACHABLE"
    ELSE IF outcome \in {"ENOEXEC", "EBADF"} THEN "ADDRESS_TYPE_NOT_SUPPORTED"
    ELSE "GENERAL_FAILURE"

\* the Response to request r with the given status
socks_response(status, r) ==
    [version |-> 5, status |-> status,
     atyp |-> r.atyp, addr |-> r.addr, port |-> r.port]

\* datetime.timedelta(d): its first positional argument is days; in seconds.
timedelta(days) == days * 86400

\* create_dest_stream: the deadline gen.with_timeout puts on the connect,
\* datetime.timedelta(5), in seconds.
connect_timeout == timedelta(5)

\* The bytes of a SOCKS5 request on the wire: version, command, a reserved
\* byte, the address type, the address (four bytes, a length and the name,
\* or sixteen bytes) and the port, high byte first.
socks_request_wire(r) ==
    LET cmd == IF r.cmd = "CONNECT" THEN 1 ELSE IF r.cmd = "BIND" THEN 2 ELSE 3
        atyp == IF r.atyp = "IPV4" THEN 1
                ELSE IF r.atyp = "DOMAINNAME" THEN 3 ELSE 4
        addr == IF r.addr = "127.0.0.1" THEN <<127, 0, 0, 1>>
                ELSE IF r.addr = "localhost"
                THEN <<9, 108, 111, 99, 97, 108, 104, 111, 115, 116>>
                ELSE [i \in 1..16 |-> IF i = 16 THEN 1 ELSE 0]
    IN  <<5, cmd, 0, atyp>> \o addr \o <<r.port \div 256, r.port % 256>>

\* socket.inet_ntoa(struct.pack('!I', n)): the four bytes of n.
inet_ntoa(n) ==
    <<n \div 16777216, (n \div 65536) % 256, (n \div 256) % 256, n % 256>>

\* on_socks_request of the SocksLayer in src/proxy.py: read_bytes(10) and
\* struct.unpack('!BBxBIH', data), whatever the address type is.
on_socks_request(wire) ==
    LET data == SubSeq(wire, 1, 10)
    IN  << data[1], data[2], data[4],
           ((data[5] * 256 + data[6]) * 256 + data[7]) * 256 + data[8],
           data[9] * 256 + data[10] >>

\* on_socks_request of the SocksLayer in src/proxy.py: the address it
\* connects the destination stream to, and the port it hands to
\* create_http_server with that stream once the reply is written.
socks_dest(request_data) ==
    [host |-> inet_ntoa(request_data[4]), port |-> request_data[5]]

\* on_socks_ready of the SocksLayer in src/proxy.py: the reply it packs for
\* the request it unpacked, struct.pack('!BBxBIH', 5, 0, 1, addr, port);
\* status 0 is SUCCESS and atyp 1 is IPV4.
on_socks_ready(request_data) ==
    [version |-> 5, status |-> "SUCCESS", atyp |-> "IPV4",
     addr |-> inet_ntoa(request_data[4]), port |-> request_data[5]]

\* ------------------------------------------------------------ byte stream
\* One end of a byte stream (MicroProxyIOStream) with its peer: sock is what
\* the peer wrote and the stream has not taken from the socket yet, buf the
\* read buffer, read the pending read, results what the read callbacks got;
\* wbuf the bytes write() enqueued that the socket has not accepted yet, wcb
\* whether the completion callback of a write is pending, write_cb how often
\* one ran, accepted the bytes the socket accepted.
MaxBufferSize == 3
ReadChunkSize == 2
Delim == <<"d", "e">>

NoRead == [kind |-> "none", n |-> 0]

StreamInit ==
    [sock |-> <<>>, peer_closed |-> FALSE, written |-> <<>>,
     buf |-> <<>>, read |-> NoRead, last |-> NoRead, reads |-> 0,
     results |-> <<>>,
     wbuf |-> <<>>, wcb |-> FALSE, write_cb |-> 0, accepted |-> <<>>,
     writes |-> 0,
     closed |-> FALSE, cb_set |-> TRUE, close_cb |-> 0,
     closes |-> 0, cancelled |-> 0, errors |-> 0,
     tls |-> "plain", gen |-> 0, tls_at |-> 0, stale |-> 0, op |-> "init"]

Min(a, b) == IF a < b THEN a ELSE b

RECURSIVE Flat(_)
Flat(ss) == IF ss = <<>> THEN <<>> ELSE Head(ss) \o Flat(Tail(ss))

\* the position at which the first delimiter in data ends, 0 without one
DelimEnd(data) ==
    LET starts == {i \in 1..(Len(data) - Len(Delim) + 1) :
                      SubSeq(data, i, i + Len(Delim) - 1) = Delim}
    IN  IF starts = {} THEN 0
        ELSE (CHOOSE i \in starts : \A j \in starts : i <= j) + Len(Delim) - 1

\* A mutation of _find_read_pos: a delimiter that is found completes the
\* read wherever it ends.
find_read_pos_found_wins(r, data) ==
    IF r.kind = "bytes" THEN (IF Len(data) >= r.n THEN r.n ELSE -1)
    ELSE IF r.kind = "partial"
    THEN (IF r.n = 0 THEN 0 ELSE IF Len(data) > 0 THEN Min(r.n, Len(data)) ELSE -1)
    ELSE IF r.kind = "until"
    THEN LET e == DelimEnd(data)
         IN  IF e > 0 THEN e
             ELSE IF r.n > 0 /\ Len(data) > r.n THEN -2 ELSE -1
    ELSE -1

\* A mutation of _find_read_pos: a partial read waits for all its bytes.
find_read_pos_partial_full(r, data) ==
    IF r.kind \in {"bytes", "partial"}
    THEN (IF Len(data) >= r.n THEN r.n ELSE -1)
    ELSE IF r.kind = "until"
    THEN LET e == DelimEnd(data)
         IN  IF e > 0 THEN (IF r.n > 0 /\ e > r.n THEN -2 ELSE e)
             ELSE IF r.n > 0 /\ Len(data) > r.n THEN -2 ELSE -1
    ELSE -1

\* _find_read_pos: how many bytes of data complete the read r; -1 when data
\* does not complete it yet, -2 when no more data can (max_bytes exceeded).
find_read_pos(r, data) ==
    IF r.kind = "bytes" THEN (IF Len(data) >= r.n THEN r.n ELSE -1)
    ELSE IF r.kind = "partial"
    THEN (IF r.n = 0 THEN 0 ELSE IF Len(data) > 0 THEN Min(r.n, Len(data)) ELSE -1)
    ELSE IF r.kind = "until"
    THEN LET e == DelimEnd(data)
         IN  IF e > 0 THEN (IF r.n > 0 /\ e > r.n THEN -2 ELSE e)
             ELSE IF r.n > 0 /\ Len(data) > r.n THEN -2 ELSE -1
    ELSE -1

\* _maybe_run_close_callback: the callback runs and is unregistered.
maybe_run_close_callback(S) ==
    IF S.closed /\ S.cb_set
    THEN [S EXCEPT !.close_cb = @ + 1, !.cb_set = FALSE]
    ELSE S

\* A mutation of close(): the completion callback of a write not yet
\* accepted stays pending.
stream_close_write_kept(S) ==
    maybe_run_close_callback(
        IF S.closed THEN S
        ELSE IF S.read.kind = "until_close"
        THEN [S EXCEPT !.closed = TRUE, !.read = NoRead, !.buf = <<>>,
                       !.results = Append(@, S.buf)]
        ELSE [S EXCEPT !.closed = TRUE, !.read = NoRead,
                       !.cancelled = IF S.read = NoRead THEN @ ELSE @ + 1])

\* close(): a pending read_until_close gets what is buffered, any other
\* pending read is cancelled; nothing is flushed, the bytes still enqueued
\* are dropped with the completion callback that waited for them; on a
\* closed stream only the callback is looked at.
stream_close(S) ==
    maybe_run_close_callback(
        IF S.closed THEN S
        ELSE IF S.read.kind = "until_close"
        THEN [S EXCEPT !.closed = TRUE, !.read = NoRead, !.buf = <<>>,
                       !.results = Append(@, S.buf),
                       !.wbuf = <<>>, !.wcb = FALSE]
        ELSE [S EXCEPT !.closed = TRUE, !.read = NoRead,
                       !.cancelled = IF S.read = NoRead THEN @ ELSE @ + 1,
                       !.wbuf = <<>>, !.wcb = FALSE])

\* write(data, callback): returns when the bytes are enqueued; the
\* completion callback waits until the socket has accepted them.
stream_write(S, data) ==
    [S EXCEPT !.wbuf = @ \o data, !.wcb = TRUE, !.writes = @ + 1]

\* _handle_write: the socket accepts what is enqueued and the completion
\* callback that waited runs, for a write of no bytes as well.
handle_write(S) ==
    [S EXCEPT !.accepted = @ \o S.wbuf, !.wbuf = <<>>, !.wcb = FALSE,
              !.write_cb = IF S.wcb THEN @ + 1 ELSE @]

\* the read callback runs with the first pos bytes of the buffer
read_from_buffer(S, pos) ==
    [S EXCEPT !.results = Append(@, SubSeq(S.buf, 1, pos)),
              !.buf = SubSeq(S.buf, pos + 1, Len(S.buf)),
              !.read = NoRead]

\* A mutation of the flow control: the buffer takes whatever the socket has.
buffer_room_unlimited(S) == MaxWire

\* the bytes the read buffer still has room for
buffer_room(S) == MaxBufferSize - Len(S.buf)

\* A mutation of the end of file: the close of the peer is reported out of
\* band, while its data still waits in the socket.
at_eof_out_of_band(S) == S.peer_closed

\* the socket reports the end of file once the data before it was taken
at_eof(S) == S.sock = <<>> /\ S.peer_closed

\* _read_to_buffer_loop: chunks are taken from the socket until the pending
\* read can be decided, the socket has no more, or the buffer is full; an
\* end of file on an empty socket closes the stream.
RECURSIVE read_to_buffer_loop(_)
read_to_buffer_loop(S) ==
    LET k == Min(ReadChunkSize, Min(Len(S.sock), buffer_room(S)))
    IN  IF S.closed THEN S
        ELSE IF at_eof(S) THEN stream_close(S)
        ELSE IF k = 0 THEN S
        ELSE LET T == [S EXCEPT !.buf = @ \o SubSeq(S.sock, 1, k),
                                !.sock = SubSeq(@, k + 1, Len(@))]
             IN  IF find_read_pos(T.read, T.buf) # -1 THEN T
                 ELSE read_to_buffer_loop(T)

\* _try_inline_read / _handle_read: the pending read is served from the
\* buffer, else from the socket; a read that cannot be satisfied any more
\* closes the stream.
try_read(S) ==
    LET p0 == find_read_pos(S.read, S.buf)
        T == IF p0 = -1 THEN read_to_buffer_loop(S) ELSE S
        p == find_read_pos(T.read, T.buf)
    IN  IF T.read = NoRead THEN T
        ELSE IF p >= 0 THEN read_from_buffer(T, p)
        ELSE IF p = -2 THEN stream_close(T)
        ELSE T

\* A mutation of start_tls: the TLS stream starts with an empty buffer.
start_tls_fresh_buffer(S) ==
    [S EXCEPT !.tls = "tls", !.gen = @ + 1, !.tls_at = Len(S.written),
              !.buf = <<>>]

\* start_tls with a handshake that succeeds: the TLS stream takes the place
\* of the plaintext stream, socket and buffered bytes included.
start_tls(S) ==
    [S EXCEPT !.tls = "tls", !.gen = @ + 1, !.tls_at = Len(S.written)]

\* start_tls with a handshake that fails: no stream, the socket is closed.
start_tls_failed(S) == [stream_close(S) EXCEPT !.tls = "failed"]

\* ------------------------------------------------- interceptor and plugins
\* The objects one Interceptor.request / Interceptor.response call works on.
\* obj is the heap, an object's id its position in it: a message object
\* (HttpRequest / HttpResponse) holds its path or reason and its body, which
\* are immutable values, and in ref the id of its HttpHeaders object; an
\* HttpHeaders object holds in ref the id of its list; a list holds items.
\* request is the message the layer holds, msg the one the plugins get.
MaxMut == 2      \* mutations the plugins perform on the message they get

HeapInit ==
    [obj |-> <<>>, request |-> 0, msg |-> 0, snap |-> <<>>, muts |-> 0,
     exc |-> "none", op |-> "init"]

PyObject(c, text, body, ref, items) ==
    [cls |-> c, text |-> text, body |-> body, ref |-> ref, items |-> items]

\* HttpRequest.__init__ / HttpResponse.__init__ with a list of headers:
\* HttpHeaders keeps the list it is given, the message the HttpHeaders.
HttpMessage_init(H, c, text, body, headers) ==
    LET n == Len(H.obj)
    IN  [H EXCEPT !.obj = @ \o << PyObject("list", "", "", 0, headers),
                                  PyObject("HttpHeaders", "", "", n + 1, <<>>),
                                  PyObject(c, text, body, n + 2, <<>>) >>,
                  !.request = n + 3]

\* what a message is worth: its fields with its headers followed to the list
MessageValue(H, id) ==
    [cls |-> H.obj[id].cls, text |-> H.obj[id].text, body |-> H.obj[id].body,
     headers |-> H.obj[H.obj[H.obj[id].ref].ref].items]

\* copy.copy: a new message object with the attributes of the old one; the
\* HttpHeaders object it refers to is the one the original refers to.
copy(H, id) ==
    [H EXCEPT !.obj = Append(@, H.obj[id]), !.msg = Len(H.obj) + 1]

\* What a plugin may do to the message it is given.
PluginMutations ==
    {"set_text", "set_body", "set_headers", "append_header",
     "replace_header_list", "setitem"}

\* msg.path = ..., msg.body = ..., msg.headers = HttpHeaders([...]),
\* msg.headers.headers.append(...), msg.headers.headers = [...] and
\* msg.headers[k] = v, whose list.append(key, value) raises TypeError.
plugin_mutate(H, m) ==
    LET id == H.msg
        hid == H.obj[id].ref
        lid == H.obj[hid].ref
        n == Len(H.obj)
        added == <<"X-Plugin", "1">>
    IN  IF m = "set_text" THEN [H EXCEPT !.obj[id].text = "/plugin"]
        ELSE IF m = "set_body" THEN [H EXCEPT !.obj[id].body = "plugin"]
        ELSE IF m = "set_headers"
        THEN [H EXCEPT !.obj = [@ EXCEPT ![id].ref = n + 2]
                                \o << PyObject("list", "", "", 0, <<added>>),
                                      PyObject("HttpHeaders", "", "", n + 1, <<>>) >>]
        ELSE IF m = "append_header"
        THEN [H EXCEPT !.obj[lid].items = Append(@, added)]
        ELSE IF m = "replace_header_list"
        THEN [H EXCEPT !.obj = [@ EXCEPT ![hid].ref = n + 1]
                                \o << PyObject("list", "", "", 0, <<added>>) >>]
        ELSE [H EXCEPT !.exc = "TypeError"]

\* ---------------------------------------------------------- JSON form
\* A message as context/http.py builds it: bytes are numbers below 256, a
\* header is a pair with the Python sequence type that holds it.
NoMessage ==
    [cls |-> "none", timestamp |-> 0, version |-> "", first |-> "",
     second |-> "", body |-> <<>>, headers |-> <<>>]
NoJson ==
    [timestamp |-> 0, version |-> "", first |-> "", second |-> "",
     body |-> <<>>, headers |-> <<>>]
CodecInit == [msg |-> NoMessage, json |-> NoJson, back |-> NoMessage, op |-> "init"]

Header(k, v, t) == [k |-> k, v |-> v, seq |-> t]

\* HttpHeaders.__init__ with a list (or nothing): the list is kept.
HttpHeaders_init(headers) == headers

\* A mutation of get_list: the headers go through get_dict, which keeps
\* one value, the last, for a name.
HttpHeaders_get_dict_items(headers) ==
    SelectSeq([i \in 1..Len(headers) |->
                  IF \E j \in (i + 1)..Len(headers) : headers[j].k = headers[i].k
                  THEN Header("", "", "dropped") ELSE headers[i]],
              LAMBDA h : h.seq # "dropped")

\* HttpHeaders.get_list
HttpHeaders_get_list(headers) == headers

\* HttpRequest.__init__ (first, second are method, path) and
\* HttpResponse.__init__ (code, reason) at time now.
HttpMessage(c, now, version, first, second, headers, body) ==
    [cls |-> c, timestamp |-> now, version |-> version, first |-> first,
     second |-> second, body |-> body, headers |-> HttpHeaders_init(headers)]

\* One group of up to three bytes as four base64 characters: a character is
\* its index in the base64 alphabet, 64 is '=' and 65 the newline.
b64_group(b) ==
    LET b1 == b[1]
        b2 == IF Len(b) >= 2 THEN b[2] ELSE 0
        b3 == IF Len(b) >= 3 THEN b[3] ELSE 0
        n == b1 * 65536 + b2 * 256 + b3
    IN  << n \div 262144, (n \div 4096) % 64,
           IF Len(b) >= 2 THEN (n \div 64) % 64 ELSE 64,
           IF Len(b) >= 3 THEN n % 64 ELSE 64 >>

RECURSIVE b64_chars(_)
b64_chars(bytes) ==
    IF bytes = <<>> THEN <<>>
    ELSE b64_group(SubSeq(bytes, 1, Min(3, Len(bytes))))
         \o b64_chars(SubSeq(bytes, Min(3, Len(bytes)) + 1, Len(bytes)))

\* str.encode("base64"): every 57 bytes give a line of 76 characters, and
\* each line, the last shorter one too, is followed by a newline.
RECURSIVE base64_encode(_)
base64_encode(bytes) ==
    IF bytes = <<>> THEN <<>>
    ELSE LET n == Min(57, Len(bytes))
         IN  b64_chars(SubSeq(bytes, 1, n)) \o <<65>>
             \o base64_encode(SubSeq(bytes, n + 1, Len(bytes)))

\* the bytes of four base64 characters
b64_ungroup(c) ==
    LET v(i) == IF c[i] = 64 THEN 0 ELSE c[i]
        n == v(1) * 262144 + v(2) * 4096 + v(3) * 64 + v(4)
        all == << n \div 65536, (n \div 256) % 256, n % 256 >>
    IN  SubSeq(all, 1, IF c[3] = 64 THEN 1 ELSE IF c[4] = 64 THEN 2 ELSE 3)

RECURSIVE b64_bytes(_)
b64_bytes(chars) ==
    IF Len(chars) < 4 THEN <<>>
    ELSE b64_ungroup(SubSeq(chars, 1, 4)) \o b64_bytes(SubSeq(chars, 5, Len(chars)))

\* str.decode("base64"): newlines are skipped.
base64_decode(chars) == b64_bytes(SelectSeq(chars, LAMBDA c : c <= 64))

\* HttpRequest.serialize / HttpResponse.serialize
serialize(m) ==
    [timestamp |-> m.timestamp, version |-> m.version, first |-> m.first,
     second |-> m.second, body |-> base64_encode(m.body),
     headers |-> HttpHeaders_get_list(m.headers)]

\* json.dumps then json.loads: a tuple comes back as a list.
json_wire(j) ==
    [j EXCEPT !.headers = [i \in 1..Len(j.headers) |->
                              [j.headers[i] EXCEPT !.seq = "list"]]]

\* The message built back from its JSON form at time now: the body is
\* base64-decoded, the headers are rebuilt from the list of pairs.
deserialize(c, j, now) ==
    HttpMessage(c, now, j.version, j.first, j.second, j.headers,
                base64_decode(j.body))

\* ------------------------------------------------ concurrent connections
\* Two connections served by one process, each with its own context and its
\* own Http1Layer: the layer's local state as in Cur, with the position of
\* its coroutine, the requests its peer sent and the error run_layers
\* caught.  Each came in on an http port: run_layers is about to start the
\* Http1Layer _next_layer returned, the scheme of the context being "http".
\* running tells that run_layers of the connection was resumed and has not
\* yielded since: it has the event loop.
ConnIds == {1, 2}

\* Requests of connection i are numbered from 2 * (i - 1) + 1.
ConnInit(i) ==
    [req |-> NoReq, resp |-> NoResp, sw |-> FALSE,
     sc |-> FALSE, dc |-> FALSE, sf |-> 0, df |-> 0,
     scc |-> FALSE, dcc |-> FALSE, log |-> <<>>, exc |-> "none",
     pc |-> "layer_start", first |-> 2 * (i - 1), nreq |-> 2 * (i - 1),
     error |-> "none",
     layer |-> "Http1Layer", scheme |-> PyStr("http"), running |-> FALSE]

\* Http1Layer.__init__: req, resp, switch_protocol and the engines are
\* attributes of the instance, built on the connection's own context.
layer_of(C, i) == C[i]

\* run_layers: the except clause, on the connection's record
conn_failed(T, err) ==
    [handle_layer_error(T, err) EXCEPT !.error = err, !.pc = "done",
                                       !.exc = "none", !.running = FALSE]

\* process_and_return_context from the loop test on: the layer returns, or
\* it enters the next cycle and suspends on the source read, which gives
\* the event loop back
conn_loop_test(T) ==
    IF finished(T)
    THEN [T EXCEPT !.pc = "layer_returned",
                   !.scheme = scheme_on_return(T, T.scheme)]
    ELSE [T EXCEPT !.req = NoReq, !.resp = NoResp, !.pc = "run_request",
                   !.running = FALSE]

TwoReqHeaders == { <<>>, << <<"Connection", "close">> >> }
TwoPlugins == {"none", "rewritten"}

\* what one resumption of the connection's coroutine can lead to
conn_start(c) ==
    IF c.pc = "layer_start" /\ c.layer = "Http1Layer"
    THEN {conn_loop_test(c)} ELSE {}

\* run_layers of the connection resumes with the context the layer
\* returned: _next_layer, and process_and_return_context of the fresh layer
\* it returned is called; with no next layer run_layers returns
conn_next_layer(c) ==
    IF c.pc # "layer_returned" THEN {}
    ELSE LET nl == next_layer(c.layer, c.scheme, port, done)
         IN  IF nl = "None" THEN {[c EXCEPT !.pc = "done", !.running = FALSE]}
             ELSE {[c EXCEPT !.layer = nl, !.pc = "layer_start",
                             !.running = TRUE,
                             !.req = NoReq, !.resp = NoResp, !.sw = FALSE,
                             !.scc = FALSE, !.dcc = FALSE]}

\* run_request of the connection resumes and ends
conn_run_request(c) ==
    IF c.pc # "run_request" THEN {}
    ELSE IF c.sc
    THEN {[Raise(c, "SrcStreamClosedError") EXCEPT !.pc = "request_returned"]}
    ELSE IF c.nreq >= c.first + MaxTwoReq THEN {}
    ELSE { [on_request([c EXCEPT !.nreq = @ + 1],
                       HttpRequest(c.nreq + 1, h), plug)
               EXCEPT !.pc = "request_returned"] :
           h \in TwoReqHeaders, plug \in TwoPlugins }

\* process_and_return_context resumes with what a coroutine it waited for
\* ended with: the except clauses, then the raise or the loop test
conn_except(c) ==
    LET T == process_except(c)
    IN  IF T.exc # "none" THEN [T EXCEPT !.pc = "layer_raised"]
        ELSE conn_loop_test(T)

conn_after_request(c) ==
    IF c.pc # "request_returned" THEN {}
    ELSE IF c.exc # "none" THEN {conn_except(c)}
    ELSE IF c.dc THEN {conn_except(Raise(c, "DestStreamClosedError"))}
    ELSE {[c EXCEPT !.pc = "run_response"]}

\* run_response of the connection resumes and ends
conn_run_response(c) ==
    IF c.pc # "run_response" THEN {}
    ELSE IF c.dc
    THEN {[Raise(c, "DestStreamClosedError") EXCEPT !.pc = "response_returned"]}
    ELSE { [dest_conn_receive(c, <<HttpResponse(200, h)>>, <<plug>>)
               EXCEPT !.pc = "response_returned"] :
           h \in RespHeaderChoices, plug \in TwoPlugins }

conn_after_response(c) ==
    IF c.pc # "response_returned" THEN {} ELSE {conn_except(c)}

\* run_layers of the connection resumes with the exception of the layer
conn_raised(c) ==
    IF c.pc # "layer_raised" THEN {} ELSE {conn_failed(c, c.exc)}

\* where a coroutine of the connection waits for the event loop; a
\* layer that returned without having yielded leaves run_layers running
conn_pending ==
    {"run_request", "request_returned", "run_response", "response_returned",
     "layer_raised", "layer_returned"}

conn_src_peer_close(c) ==
    IF c.pc \in conn_pending /\ ~c.running /\ ~c.sc
    THEN {[c EXCEPT !.sc = TRUE, !.sf = @ + 1]} ELSE {}

conn_dest_peer_close(c) ==
    IF c.pc \in conn_pending /\ ~c.running /\ ~c.dc
    THEN {[c EXCEPT !.dc = TRUE, !.df = @ + 1]} ELSE {}

\* ------------------------------------ ProxyServerHandler (microproxy/proxy.py)
\* A configuration key that is absent, and an attribute that was never
\* assigned.
Absent == [t |-> "absent", v |-> <<>>]
Unset == [t |-> "unset", v |-> <<>>]
Key(l) == [t |-> "list", v |-> l]

\* op is the last call made, port the port the accepted connection asked
\* for, layer what the last get_layer call returned, exc the exception the
\* last call ended with, processed tells that process() of a layer was
\* called, logged counts the logger.exception calls of handle_stream.
HandlerInit ==
    [op |-> "init", config |-> [http_port |-> Absent, https_port |-> Absent],
     http_ports |-> Unset, https_ports |-> Unset,
     port |-> 0, layer |-> "None", exc |-> "none",
     processed |-> FALSE, logged |-> 0]

\* ProxyServerHandler.__init__: the two try/except KeyError blocks; the
\* second except clause assigns http_ports.
ProxyServerHandler_init(cfg) ==
    LET h1 == IF cfg.http_port = Absent THEN Key(<<>>) ELSE cfg.http_port
    IN  [HandlerInit EXCEPT
            !.op = "new", !.config = cfg,
            !.http_ports = IF cfg.https_port = Absent THEN Key(<<>>) ELSE h1,
            !.https_ports = IF cfg.https_port = Absent THEN Unset
                            ELSE cfg.https_port]

\* ProxyServerHandler.get_layer: `or` looks at the attribute only when the
\* port is not the default one; reading an attribute that was never
\* assigned raises AttributeError.
get_layer(h, p) ==
    LET r == [h EXCEPT !.op = "get_layer", !.port = p,
                       !.layer = "None", !.exc = "none"]
    IN  IF p = 80 THEN [r EXCEPT !.layer = "Http1Layer"]
        ELSE IF h.http_ports = Unset THEN [r EXCEPT !.exc = "AttributeError"]
        ELSE IF InList(p, h.http_ports.v) THEN [r EXCEPT !.layer = "Http1Layer"]
        ELSE IF p = 443 THEN [r EXCEPT !.layer = "ForwardLayer"]
        ELSE IF h.https_ports = Unset THEN [r EXCEPT !.exc = "AttributeError"]
        ELSE [r EXCEPT !.layer = "ForwardLayer"]

\* Context.__init__ (microproxy/context.py): the keyword arguments it takes
ContextArgs == {"src_stream", "dest_stream", "scheme", "host", "port", "config"}

\* run_next_layer: Context(src_stream, dest_stream, interceptor, host, port)
\* is called first; a keyword Context.__init__ does not take raises
\* TypeError there, before get_layer(context).process() is reached.
run_next_layer(h, p) ==
    LET kw == {"src_stream", "dest_stream", "interceptor", "host", "port"}
    IN  IF kw \subseteq ContextArgs
        THEN LET g == get_layer(h, p)
             IN  IF g.exc = "none" THEN [g EXCEPT !.processed = TRUE] ELSE g
        ELSE [h EXCEPT !.op = "run_next_layer", !.port = p,
                       !.layer = "None", !.exc = "TypeError"]

\* handle_stream, `except Exception as e`: the exception is logged (and the
\* stream closed).
handle_stream_except(h) == [h EXCEPT !.logged = @ + 1]

SideInit ==
    /\ stream = StreamInit
    /\ heap = HeapInit
    /\ codec = CodecInit
    /\ conns = [i \in ConnIds |-> ConnInit(i)]
    /\ handler = HandlerInit

Modes == {"socks", "transparent", "http", "replay"}
\* a mode get_first_layer has no branch for
OtherModes == {"tunnel"}
Ports == {80, 443, 8080, 22}
PortLists == { <<>>, <<8080>> }
EntryLayers == {"SocksLayer", "TransparentLayer", "ReplayLayer", "HttpProxyLayer"}

\* The state when run_layers is entered for an accepted connection; when
\* get_first_layer raised there is no layer to enter it with.
Init ==
    /\ mode \in Modes \cup OtherModes
    /\ http_port \in PortLists
    /\ https_port \in PortLists
    /\ port = 0
    /\ IF get_first_layer(mode) = "ValueError"
       THEN layer = "None" /\ trail = <<>> /\ pc = "done"
       ELSE /\ layer = get_first_layer(mode)
            /\ trail = <<get_first_layer(mode)>>
            /\ pc = "layer_start"
    /\ scheme = PyNone
    /\ done = FALSE
    /\ src_closed = FALSE /\ dest_closed = FALSE
    /\ src_fired = 0 /\ dest_fired = 0
    /\ req = NoReq /\ resp = NoResp
    /\ switch_protocol = FALSE
    /\ src_conn_closed = FALSE /\ dest_conn_closed = FALSE
    /\ nreq = 0
    /\ log = <<>>
    /\ error = (IF get_first_layer(mode) = "ValueError" THEN "ValueError" ELSE "none")
    /\ socks = SocksInit
    /\ raised = "none"
    /\ SideInit

settings == <<mode, http_port, https_port, port, done>>
config == <<settings, raised>>
\* the same but for the port of the context, which the entry layers assign
server_state == <<mode, http_port, https_port, done, raised>>

\* what stands beside the connection's layers: the byte stream looked at on
\* its own and the objects of one interceptor call
side == <<stream, heap, codec, conns, handler>>

\* Writes the layer's local state back.
Store(T) ==
    /\ req' = T.req /\ resp' = T.resp
    /\ switch_protocol' = T.sw
    /\ src_closed' = T.sc /\ dest_closed' = T.dc
    /\ src_fired' = T.sf /\ dest_fired' = T.df
    /\ src_conn_closed' = T.scc /\ dest_conn_closed' = T.dcc
    /\ log' = T.log

\* run_layers: the except clause, _handle_layer_error and the break.
LayerFailed(T, err) ==
    /\ Store(handle_layer_error(T, err))
    /\ error' = err
    /\ pc' = "done"
    /\ UNCHANGED <<scheme, layer, trail>>

\* Http1Layer.process_and_return_context from the loop test on: either the
\* next cycle is entered and suspends on the source read, or the layer returns.
LoopTest(T) ==
    IF finished(T)
    THEN /\ Store(T)
         /\ scheme' = scheme_on_return(T, scheme)
         /\ pc' = "layer_returned"
         /\ UNCHANGED <<error, layer, trail>>
    ELSE /\ Store([T EXCEPT !.req = NoReq, !.resp = NoResp])
         /\ pc' = "run_request"
         /\ UNCHANGED <<scheme, error, layer, trail>>

\* A mutation of run_response: the loop does not wait for the response.
run_response_not_awaited(T) == LoopTest(T)

\* `yield self.run_response()` after run_request returned: the coroutine
\* suspends on the destination read.
run_response(T) ==
    /\ Store(T)
    /\ pc' = "run_response"
    /\ UNCHANGED <<scheme, error, layer, trail>>

\* A coroutine the caller waits for ends, with an exception or without: the
\* caller is resumed with the outcome in a later iteration of the event loop.
Raised(T, at) ==
    /\ Store(T)
    /\ raised' = T.exc
    /\ pc' = at
    /\ UNCHANGED <<scheme, error, layer, trail>>

\* run_layers calls process_and_return_context of a fresh Http1Layer.
Http1Start ==
    /\ pc = "layer_start" /\ layer = "Http1Layer"
    /\ LoopTest(Cur)
    /\ UNCHANGED <<config, socks, side, nreq>>

\* run_request resumes: the source read fails on a closed stream, or returns
\* the next request, which the source engine hands to on_request.  The
\* coroutine ends; process_and_return_context, which waits for it, is
\* resumed by the event loop later.
Http1RunRequest ==
    /\ pc = "run_request"
    /\ IF src_closed
       THEN /\ Raised(Raise(Cur, "SrcStreamClosedError"), "request_returned")
            /\ nreq' = nreq
       ELSE /\ nreq < MaxReq
            /\ \E h \in ReqHeaderChoices, plug \in PluginChoices :
                 Raised(on_request(Cur, HttpRequest(nreq + 1, h), plug),
                        "request_returned")
            /\ nreq' = nreq + 1
    /\ UNCHANGED <<settings, socks, side>>

\* process_and_return_context resumes at `yield self.run_request()`: with
\* the exception of run_request in its except clauses, else it calls
\* run_response, whose read fails at once on a closed stream and suspends
\* the coroutine on an open one.
Http1AfterRequest ==
    /\ pc = "request_returned"
    /\ IF raised # "none"
       THEN LET T == process_except(Raise(Cur, raised))
            IN  IF T.exc # "none"
                THEN Raised(T, "layer_raised")
                ELSE LoopTest(T) /\ raised' = "none"
       ELSE IF dest_closed
       THEN Raised(process_except(Raise(Cur, "DestStreamClosedError")),
                   "layer_raised")
       ELSE run_response(Cur) /\ raised' = "none"
    /\ UNCHANGED <<settings, socks, side, nreq>>

\* The messages the destination may answer the current request with.
Info100 == HttpResponse(100, <<>>)
LastMsgs ==
    {Info100}
    \cup (IF HttpHeaders_getitem(req.headers, "Upgrade") # <<>>
          THEN {HttpResponse(101, <<>>)} ELSE {})
    \cup {HttpResponse(200, h) : h \in RespHeaderChoices}
Chunks ==
    { [i \in 1..n |-> IF i < n THEN Info100 ELSE m] :
          n \in 1..MaxChunk, m \in LastMsgs }

\* run_response resumes: the destination read fails on a closed stream, or
\* returns a chunk that the destination engine parses.  The coroutine ends;
\* process_and_return_context is resumed by the event loop later.
Http1RunResponse ==
    /\ pc = "run_response"
    /\ IF dest_closed
       THEN Raised(Raise(Cur, "DestStreamClosedError"), "response_returned")
       ELSE \E chunk \in Chunks :
              \E plugs \in [1..Len(chunk) -> PluginChoices] :
                 Raised(dest_conn_receive(Cur, chunk, plugs),
                        "response_returned")
    /\ UNCHANGED <<settings, socks, side, nreq>>

\* process_and_return_context resumes at `yield self.run_response()`: the
\* except clauses, or the loop test.
Http1AfterResponse ==
    /\ pc = "response_returned"
    /\ LET T == process_except(Raise(Cur, raised))
       IN  IF T.exc # "none"
           THEN Raised(T, "layer_raised")
           ELSE LoopTest(T) /\ raised' = "none"
    /\ UNCHANGED <<settings, socks, side, nreq>>

\* run_layers resumes with the exception of the layer.
Http1Raised ==
    /\ pc = "layer_raised"
    /\ LayerFailed(Cur, raised)
    /\ raised' = "none"
    /\ UNCHANGED <<settings, socks, side, nreq>>

\* Where the coroutines of a started Http1Layer stand between two
\* iterations of the event loop.
Http1Pending ==
    {"run_request", "request_returned", "run_response", "response_returned",
     "layer_raised"}

\* The event loop notices that the source peer closed the connection.
SrcPeerClose ==
    /\ \/ pc \in Http1Pending \cup {"layer_returned"}
       \/ pc = "layer_start" /\ layer = "SocksLayer"
    /\ ~src_closed
    /\ src_closed' = TRUE /\ src_fired' = src_fired + 1
    /\ UNCHANGED <<config, socks, side, layer, pc, trail, scheme, dest_closed, dest_fired,
                   req, resp, switch_protocol, src_conn_closed,
                   dest_conn_closed, nreq, log, error>>

\* The event loop notices that the destination peer closed the connection.
DestPeerClose ==
    /\ pc \in Http1Pending \cup {"layer_returned"}
    /\ ~dest_closed
    /\ dest_closed' = TRUE /\ dest_fired' = dest_fired + 1
    /\ UNCHANGED <<config, socks, side, layer, pc, trail, scheme, src_closed, src_fired,
                   req, resp, switch_protocol, src_conn_closed,
                   dest_conn_closed, nreq, log, error>>

\* A mutation of the source read: a closed source stream goes unnoticed.
socks_src_error_ignored(S) == "none"

\* The error a read or write of the layer on the source stream S ends with.
socks_src_error(S) == IF S.sc THEN "SrcStreamClosedError" ELSE "none"

\* What a SOCKS client may send.
Greetings ==
    { [version |-> v, methods |-> m] :
          v \in {4, 5}, m \in {{"NO_AUTH"}, {"GSSAPI"}, {"NO_AUTH", "GSSAPI"}} }
SocksAddrs ==
    { <<"IPV4", "127.0.0.1">>, <<"DOMAINNAME", "localhost">>, <<"IPV6", "::1">> }
SocksRequests ==
    { [cmd |-> c, atyp |-> a[1], addr |-> a[2], port |-> p] :
          c \in {"CONNECT", "BIND", "UDP_ASSOCIATE"}, a \in SocksAddrs,
          p \in Ports }
ConnectOutcomes ==
    {"connected", "TimeoutError", "ENOEXEC", "EBADF", "ETIMEDOUT",
     "EADDRINUSE", "EOTHER"}

\* The layer stays suspended on its next read; nothing but socks changes.
SocksSuspends ==
    UNCHANGED <<pc, scheme, error, layer, trail, src_closed, dest_closed,
                src_fired, dest_fired, log, req, resp, switch_protocol,
                src_conn_closed, dest_conn_closed>>

\* SocksLayer, INIT: the read of the greeting fails on a closed source
\* stream, or the greeting is answered; without NO_AUTH on offer the
\* layer closes the source stream and ends there.
SocksGreeting ==
    /\ pc = "layer_start" /\ layer = "SocksLayer" /\ socks.state = "INIT"
    /\ IF socks_src_error(Cur) # "none"
       THEN LayerFailed(Cur, socks_src_error(Cur)) /\ UNCHANGED socks
       ELSE \E g \in Greetings :
              LET reply == socks_greeting_response(g)
                  S1 == [socks EXCEPT !.greeting = g, !.sent = Append(@, reply)]
              IN  IF reply.auth_type = "NO_AUTH"
                  THEN socks' = [S1 EXCEPT !.state = "GREETED"] /\ SocksSuspends
                  ELSE /\ socks' = S1
                       /\ LayerFailed(src_stream_close(Cur), "SrcStreamClosedError")
    /\ UNCHANGED <<config, nreq, side>>

\* SocksLayer, GREETED: the request is read; a command other than CONNECT
\* is refused, for CONNECT create_dest_stream is called.
SocksRequest ==
    /\ pc = "layer_start" /\ layer = "SocksLayer" /\ socks.state = "GREETED"
    /\ IF socks_src_error(Cur) # "none"
       THEN LayerFailed(Cur, socks_src_error(Cur)) /\ UNCHANGED socks
       ELSE \E r \in SocksRequests :
              IF socks_command_supported(r.cmd)
              THEN /\ socks' = [socks EXCEPT !.request = r,
                                             !.state = "REQUESTED",
                                             !.connects = @ + 1]
                   /\ SocksSuspends
              ELSE /\ socks' =
                        [socks EXCEPT
                           !.request = r,
                           !.sent = Append(@, socks_response("COMMAND_NOT_SUPPORTED", r))]
                   /\ LayerFailed(Cur, "ProtocolError")
    /\ UNCHANGED <<config, nreq, side>>

\* The times, in seconds after the connect was started, the model looks at
\* a pending connect.
WaitTimes == {5, 6, connect_timeout}

\* Time passes while create_dest_stream waits for the connect; the timer of
\* gen.with_timeout has not fired before its deadline.
SocksConnectWait ==
    /\ pc = "layer_start" /\ layer = "SocksLayer" /\ socks.state = "REQUESTED"
    /\ \E t \in WaitTimes :
         /\ socks.waited < t /\ t <= connect_timeout
         /\ socks' = [socks EXCEPT !.waited = t]
    /\ SocksSuspends
    /\ UNCHANGED <<config, nreq, side>>

\* SocksLayer, REQUESTED: create_dest_stream has its outcome (the timeout
\* at the deadline, any other before it); the Response is written and the
\* layer returns the context, with the host and the port of the request in
\* it, or fails.
SocksConnect ==
    /\ pc = "layer_start" /\ layer = "SocksLayer" /\ socks.state = "REQUESTED"
    /\ \E o \in ConnectOutcomes :
         /\ (o = "TimeoutError") <=> (socks.waited = connect_timeout)
         /\ IF socks_src_error(Cur) # "none"
            THEN /\ socks' = [socks EXCEPT !.outcome = o]
                 /\ LayerFailed(Cur, socks_src_error(Cur))
                 /\ port' = port
            ELSE LET S1 == [socks EXCEPT
                              !.outcome = o,
                              !.sent = Append(@, socks_response(connect_status(o),
                                                                socks.request))]
                 IN  IF o = "connected"
                     THEN /\ socks' = [S1 EXCEPT !.state = "READY",
                                                 !.host = socks.request.addr,
                                                 !.waited = 0]
                          /\ port' = socks.request.port
                          /\ pc' = "layer_returned"
                          /\ UNCHANGED <<scheme, error, layer, trail, src_closed,
                                         dest_closed, src_fired, dest_fired, log,
                                         req, resp, switch_protocol,
                                         src_conn_closed, dest_conn_closed>>
                     ELSE /\ socks' = S1
                          /\ LayerFailed(Cur, "DestNotConnectedError")
                          /\ port' = port
    /\ UNCHANGED <<server_state, nreq, side>>

\* An entry layer other than SocksLayer runs to its end: it returns the
\* context with the port it learnt in it (the replay and the HTTP proxy
\* layer with the scheme they learnt as well), or fails.
EntrySchemes == {PyNone, PyStr("http"), PyStr("https"), PyStr("h2")}
EntryErrors == {"DestNotConnectedError", "SrcStreamClosedError",
                "ProtocolError", "TimeoutError"}
EntryLayer ==
    /\ pc = "layer_start" /\ layer \in EntryLayers \ {"SocksLayer"}
    /\ \/ /\ scheme' \in (IF layer \in {"ReplayLayer", "HttpProxyLayer"}
                          THEN EntrySchemes ELSE {scheme})
          /\ port' \in Ports
          /\ pc' = "layer_returned"
          /\ UNCHANGED <<src_closed, dest_closed, src_fired, dest_fired, log,
                         error, layer, trail, req, resp, switch_protocol,
                         src_conn_closed, dest_conn_closed>>
       \/ /\ \E err \in EntryErrors :
               LayerFailed(IF err = "SrcStreamClosedError"
                           THEN [Cur EXCEPT !.sc = TRUE, !.sf = @ + 1]
                           ELSE Cur, err)
          /\ port' = port
    /\ UNCHANGED <<server_state, socks, side, nreq>>

\* TlsLayer runs to its end: both handshakes succeed and the scheme follows
\* the negotiated ALPN, or it closes both streams and fails with TlsError.
TlsLayer ==
    /\ pc = "layer_start" /\ layer = "TlsLayer"
    /\ \/ /\ ~src_closed /\ ~dest_closed
          /\ scheme' \in {PyStr("https"), PyStr("h2")}
          /\ pc' = "layer_returned"
          /\ UNCHANGED <<src_closed, dest_closed, src_fired, dest_fired, log,
                         error, layer, trail, req, resp, switch_protocol,
                         src_conn_closed, dest_conn_closed>>
       \/ LayerFailed(dest_stream_close(src_stream_close(Cur)), "TlsError")
    /\ UNCHANGED <<config, socks, side, nreq>>

\* ForwardLayer / Http2Layer pump until a peer closes, close both streams
\* and return the context.
PumpLayer ==
    /\ pc = "layer_start" /\ layer \in {"ForwardLayer", "Http2Layer"}
    /\ Store(dest_stream_close(src_stream_close(Cur)))
    /\ pc' = "layer_returned"
    /\ UNCHANGED <<config, socks, side, nreq, scheme, error, layer, trail>>

\* A mutation of run_layers: process_and_return_context is not waited for,
\* run_layers goes on when the layer suspends on its first read.
layer_returned_or_suspended == pc \in {"layer_returned", "run_request"}

\* `current_context = yield current_layer.process_and_return_context()`:
\* run_layers goes on when the layer's coroutine has returned.
layer_returned == pc = "layer_returned"

\* run_layers after a layer returned: _next_layer picks the next layer (a
\* fresh Http1Layer starts with req = resp = None, switch_protocol = False
\* and two fresh engines); with no next layer run_layers returns.
NextLayer ==
    /\ layer_returned
    /\ LET nl == next_layer(layer, scheme, port, done)
       IN  /\ scheme' = next_layer_scheme(layer, scheme, port)
           /\ IF nl = "None"
              THEN /\ pc' = "done"
                   /\ UNCHANGED <<layer, trail, req, resp, switch_protocol,
                                  src_conn_closed, dest_conn_closed>>
              ELSE /\ Len(trail) < MaxLayers
                   /\ layer' = nl
                   /\ trail' = Append(trail, nl)
                   /\ pc' = "layer_start"
                   /\ IF nl = "Http1Layer"
                      THEN /\ req' = NoReq /\ resp' = NoResp
                           /\ switch_protocol' = FALSE
                           /\ src_conn_closed' = FALSE
                           /\ dest_conn_closed' = FALSE
                      ELSE UNCHANGED <<req, resp, switch_protocol,
                                       src_conn_closed, dest_conn_closed>>
    /\ UNCHANGED <<config, socks, side, nreq, src_closed, dest_closed, src_fired,
                   dest_fired, log, error>>

Next ==
    \/ SocksGreeting
    \/ SocksRequest
    \/ SocksConnectWait
    \/ SocksConnect
    \/ EntryLayer
    \/ TlsLayer
    \/ PumpLayer
    \/ NextLayer
    \/ Http1Start
    \/ Http1RunRequest
    \/ Http1AfterRequest
    \/ Http1RunResponse
    \/ Http1AfterResponse
    \/ Http1Raised
    \/ SrcPeerClose
    \/ DestPeerClose

Spec == Init /\ [][Next]_vars

\* ------------------------------------------------ a byte stream on its own
\* One stream and its peer, the connection's layers standing still.
run_vars ==
    <<socks, mode, http_port, https_port, layer, pc, trail, scheme, port,
      done, src_closed, dest_closed, src_fired, dest_fired, req, resp,
      switch_protocol, src_conn_closed, dest_conn_closed, nreq, log, error,
      raised>>
conn_vars == <<run_vars, heap, codec, conns, handler>>

InitStream ==
    /\ Init
    /\ mode = "socks" /\ http_port = <<>> /\ https_port = <<>>

\* What the peer writes at once, and the reads the owner of the stream issues
\* (n is num_bytes or max_bytes, 0 standing for no max_bytes).
Packets ==
    { <<"a">>, <<"d">>, <<"e">>, <<"a", "d", "e">> }
ReadRequests ==
    {[kind |-> "bytes", n |-> k] : k \in {1, 3}}
    \cup {[kind |-> "partial", n |-> k] : k \in {0, 2}}
    \cup {[kind |-> "until", n |-> k] : k \in {0, 2}}
    \cup {[kind |-> "until_close", n |-> 0]}

\* The peer writes a packet; it waits in the socket.
StreamPeerWrite ==
    /\ ~stream.peer_closed /\ stream.tls # "failed"
    /\ \E p \in Packets :
         /\ Len(stream.written) + Len(p) <= MaxWire
         /\ stream' = [stream EXCEPT !.sock = @ \o p, !.written = @ \o p,
                                      !.op = "peer_write"]
    /\ UNCHANGED conn_vars

\* The peer closes its end; the socket reports it once its data was taken.
StreamPeerClose ==
    /\ ~stream.peer_closed
    /\ stream' = [stream EXCEPT !.peer_closed = TRUE, !.op = "peer_close"]
    /\ UNCHANGED conn_vars

\* read_bytes / read_until / read_until_close: on a closed stream the call
\* raises StreamClosedError, else the read is served at once if it can be.
StreamReadOf(requests) ==
    /\ stream.read = NoRead
    /\ IF stream.closed
       THEN /\ stream.errors = 0
            /\ stream' = [stream EXCEPT !.errors = 1, !.op = "read"]
       ELSE \E r \in requests :
              /\ stream.reads + stream.writes < MaxReads
              /\ stream' = [try_read([stream EXCEPT !.read = r, !.last = r,
                                                      !.reads = @ + 1])
                               EXCEPT !.op = "read"]
    /\ UNCHANGED conn_vars

StreamRead == StreamReadOf(ReadRequests)

\* What the owner of the stream writes.
WriteData == { <<>>, <<"x">> }

\* write(data, callback): on a closed stream the call raises
\* StreamClosedError, else the bytes are enqueued.
StreamWrite ==
    /\ IF stream.closed
       THEN /\ stream.errors = 0
            /\ stream' = [stream EXCEPT !.errors = 1, !.op = "write"]
       ELSE \E d \in WriteData :
              /\ stream.writes < 1
              /\ stream.reads + stream.writes < MaxReads
              /\ stream' = [stream_write(stream, d) EXCEPT !.op = "write"]
    /\ UNCHANGED conn_vars

\* The event loop reports the socket writable while a completion callback
\* waits.
StreamWritable ==
    /\ stream.wcb
    /\ stream' = [handle_write(stream) EXCEPT !.op = "writable"]
    /\ UNCHANGED conn_vars

\* The event loop reports the socket readable while a read is pending.
StreamReadable ==
    /\ stream.read # NoRead /\ ~stream.closed
    /\ stream.sock # <<>> \/ stream.peer_closed
    /\ try_read(stream) # stream
    /\ stream' = [try_read(stream) EXCEPT !.op = "readable"]
    /\ UNCHANGED conn_vars

\* With no read pending and nothing buffered the stream listens for the
\* close of its peer.
StreamIdleClose ==
    /\ stream.read = NoRead /\ ~stream.closed
    /\ stream.buf = <<>> /\ at_eof(stream)
    /\ stream' = [stream_close(stream) EXCEPT !.op = "idle_close"]
    /\ UNCHANGED conn_vars

\* The owner calls close().
StreamClose ==
    /\ stream.closes < 2
    /\ stream' = [stream_close([stream EXCEPT !.closes = @ + 1])
                     EXCEPT !.op = "close"]
    /\ UNCHANGED conn_vars

\* start_tls on the idle plaintext stream: a TLS stream over the same
\* socket takes its place, or the handshake fails and there is no stream.
StreamStartTls ==
    /\ stream.tls = "plain" /\ ~stream.closed /\ ~stream.peer_closed
    /\ stream.read = NoRead /\ stream.sock = <<>>
    /\ \E ok \in BOOLEAN :
         stream' = [(IF ok THEN start_tls(stream) ELSE start_tls_failed(stream))
                       EXCEPT !.op = "start_tls"]
    /\ UNCHANGED conn_vars

\* The plaintext stream is used after start_tls: the call is refused.
StreamStaleUse ==
    /\ stream.gen > 0 /\ stream.stale = 0
    /\ stream' = [stream EXCEPT !.stale = 1, !.op = "stale_use"]
    /\ UNCHANGED conn_vars

NextStream ==
    \/ StreamPeerWrite
    \/ StreamPeerClose
    \/ StreamRead
    \/ StreamReadable
    \/ StreamIdleClose
    \/ StreamClose
    \/ StreamWrite
    \/ StreamWritable

SpecStream == InitStream /\ [][NextStream]_vars

\* ------------------------------------------- a byte stream and start_tls
\* The stream with its upgrade to TLS; the reads are those of a line
\* protocol: a byte, a line, the rest.
TlsReadRequests ==
    {[kind |-> "bytes", n |-> 1], [kind |-> "until", n |-> 0],
     [kind |-> "until_close", n |-> 0]}

StreamReadTls == StreamReadOf(TlsReadRequests)

NextTls ==
    \/ StreamPeerWrite
    \/ StreamPeerClose
    \/ StreamReadTls
    \/ StreamReadable
    \/ StreamIdleClose
    \/ StreamClose
    \/ StreamStartTls
    \/ StreamStaleUse

SpecTls == InitStream /\ [][NextTls]_vars

\* ------------------------------------- one interceptor call on its own
\* A message is built, Interceptor.request or Interceptor.response copies
\* it for the plugins, and the plugins work on what they got.
off_heap == <<run_vars, stream, codec, conns, handler>>

MessageKinds == {"HttpRequest", "HttpResponse"}

MessageNew ==
    /\ heap.request = 0
    /\ \E c \in MessageKinds, h \in ReqHeaderChoices, b \in {"", "body"} :
         LET H == HttpMessage_init(heap, c, IF c = "HttpRequest" THEN "/a" ELSE "OK",
                                   b, h)
         IN  heap' = [H EXCEPT !.snap = MessageValue(H, H.request), !.op = "new"]
    /\ UNCHANGED off_heap

\* Interceptor.request / Interceptor.response up to the call of the plugins
InterceptorCopy ==
    /\ heap.request # 0 /\ heap.msg = 0
    /\ heap' = [copy(heap, heap.request) EXCEPT !.op = "copy"]
    /\ UNCHANGED off_heap

\* plugin_manager.exec_request / exec_response: one thing a plugin does
PluginMutate ==
    /\ heap.msg # 0 /\ heap.muts < MaxMut /\ heap.exc = "none"
    /\ \E m \in PluginMutations :
         heap' = [plugin_mutate(heap, m) EXCEPT !.muts = @ + 1, !.op = m]
    /\ UNCHANGED off_heap

NextCopy ==
    \/ MessageNew
    \/ InterceptorCopy
    \/ PluginMutate

SpecCopy == InitStream /\ [][NextCopy]_vars

\* --------------------------------------------- the JSON form on its own
\* A message is built, serialized, and built back from its JSON form.
off_codec == <<run_vars, stream, heap, conns, handler>>

Bodies ==
    { <<>>, <<0>>, <<255>>, <<77, 97>>, <<77, 97, 110>>, <<255, 0, 128, 10>>,
      [i \in 1..58 |-> i - 1] }
HeaderLists ==
    { <<>>,
      << Header("Host", "a", "tuple") >>,
      << Header("Set-Cookie", "x", "tuple"), Header("Host", "a", "tuple"),
         Header("Set-Cookie", "y", "tuple") >>,
      << Header("B", "2", "list"), Header("A", "1", "list") >> }
Clock == {1, 2}

CodecNew ==
    /\ codec.msg = NoMessage
    /\ \E c \in MessageKinds, t \in Clock, h \in HeaderLists, b \in Bodies :
         codec' = [codec EXCEPT
                      !.msg = IF c = "HttpRequest"
                              THEN HttpMessage(c, t, "HTTP/1.1", "GET", "/a", h, b)
                              ELSE HttpMessage(c, t, "HTTP/1.1", "200", "OK", h, b),
                      !.op = "new"]
    /\ UNCHANGED off_codec

CodecSerialize ==
    /\ codec.msg # NoMessage /\ codec.json = NoJson
    /\ codec' = [codec EXCEPT !.json = json_wire(serialize(codec.msg)),
                              !.op = "serialize"]
    /\ UNCHANGED off_codec

CodecDeserialize ==
    /\ codec.op = "serialize"
    /\ \E t \in Clock :
         /\ t >= codec.msg.timestamp
         /\ codec' = [codec EXCEPT !.back = deserialize(codec.msg.cls, codec.json, t),
                                   !.op = "deserialize"]
    /\ UNCHANGED off_codec

NextJson ==
    \/ CodecNew
    \/ CodecSerialize
    \/ CodecDeserialize

SpecJson == InitStream /\ [][NextJson]_vars

\* ------------------------------------------- two connections interleaved
\* The event loop resumes one coroutine at a time; the handlers of
\* connection i work on the layer layer_of gives them.
off_conns == <<run_vars, stream, heap, codec, handler>>

\* The event loop runs a callback of connection i when no coroutine of
\* another connection is running.
event_loop(C, i) == \A j \in ConnIds \ {i} : ~C[j].running

TwoStart ==
    /\ \E i \in ConnIds : \E n \in conn_start(layer_of(conns, i)) :
         /\ event_loop(conns, i)
         /\ conns' = [conns EXCEPT ![i] = n]
    /\ UNCHANGED off_conns

TwoRunRequest ==
    /\ \E i \in ConnIds : \E n \in conn_run_request(layer_of(conns, i)) :
         /\ event_loop(conns, i)
         /\ conns' = [conns EXCEPT ![i] = n]
    /\ UNCHANGED off_conns

TwoAfterRequest ==
    /\ \E i \in ConnIds : \E n \in conn_after_request(layer_of(conns, i)) :
         /\ event_loop(conns, i)
         /\ conns' = [conns EXCEPT ![i] = n]
    /\ UNCHANGED off_conns

TwoRunResponse ==
    /\ \E i \in ConnIds : \E n \in conn_run_response(layer_of(conns, i)) :
         /\ event_loop(conns, i)
         /\ conns' = [conns EXCEPT ![i] = n]
    /\ UNCHANGED off_conns

TwoAfterResponse ==
    /\ \E i \in ConnIds : \E n \in conn_after_response(layer_of(conns, i)) :
         /\ event_loop(conns, i)
         /\ conns' = [conns EXCEPT ![i] = n]
    /\ UNCHANGED off_conns

TwoRaised ==
    /\ \E i \in ConnIds : \E n \in conn_raised(layer_of(conns, i)) :
         /\ event_loop(conns, i)
         /\ conns' = [conns EXCEPT ![i] = n]
    /\ UNCHANGED off_conns

\* run_layers of a connection goes on after its layer returned.
TwoNextLayer ==
    /\ \E i \in ConnIds : \E n \in conn_next_layer(layer_of(conns, i)) :
         /\ event_loop(conns, i)
         /\ conns' = [conns EXCEPT ![i] = n]
    /\ UNCHANGED off_conns

TwoSrcPeerClose ==
    /\ \E i \in ConnIds : \E n \in conn_src_peer_close(layer_of(conns, i)) :
         /\ event_loop(conns, i)
         /\ conns' = [conns EXCEPT ![i] = n]
    /\ UNCHANGED off_conns

TwoDestPeerClose ==
    /\ \E i \in ConnIds : \E n \in conn_dest_peer_close(layer_of(conns, i)) :
         /\ event_loop(conns, i)
         /\ conns' = [conns EXCEPT ![i] = n]
    /\ UNCHANGED off_conns

NextTwo ==
    \/ TwoStart
    \/ TwoRunRequest
    \/ TwoAfterRequest
    \/ TwoRunResponse
    \/ TwoAfterResponse
    \/ TwoRaised
    \/ TwoNextLayer
    \/ TwoSrcPeerClose
    \/ TwoDestPeerClose

SpecTwo == InitStream /\ [][NextTwo]_vars

\* --------------------------------------------- _next_layer on its own
\* _next_layer is a function of the layer that returned and of the context
\* it returned: here run_layers is entered at that point with any layer, any
\* scheme, done either way and any port configuration.
AllLayers == EntryLayers \cup {"TlsLayer", "Http1Layer", "ForwardLayer", "Http2Layer"}
RouteSchemes ==
    EntrySchemes \cup {PyStr("websocket"), PyStr("h2c"), PyList(<<"websocket">>)}
RoutePortLists == PortLists \cup { <<443>>, <<22, 8080>> }

InitRoute ==
    /\ mode \in Modes
    /\ http_port \in RoutePortLists
    /\ https_port \in RoutePortLists
    /\ port \in Ports
    /\ layer \in AllLayers
    /\ trail = <<layer>>
    /\ pc = "layer_returned"
    /\ scheme \in RouteSchemes
    /\ done \in BOOLEAN
    /\ src_closed = FALSE /\ dest_closed = FALSE
    /\ src_fired = 0 /\ dest_fired = 0
    /\ req = NoReq /\ resp = NoResp
    /\ switch_protocol = FALSE
    /\ src_conn_closed = FALSE /\ dest_conn_closed = FALSE
    /\ nreq = 0
    /\ log = <<>>
    /\ error = "none"
    /\ socks = SocksInit
    /\ raised = "none"
    /\ SideInit

NextRoute == NextLayer

SpecRoute == InitRoute /\ [][NextRoute]_vars

\* ------------------------------------------- the handler on its own
off_handler == <<run_vars, stream, heap, codec, conns>>

HandlerKeys == {Absent} \cup {Key(l) : l \in RoutePortLists}
HandlerConfigs == [http_port : HandlerKeys, https_port : HandlerKeys]

\* what handle_stream leaves alone: all but the handler and the stream of
\* the accepted connection
handle_stream_frame ==
    <<socks, mode, http_port, https_port, layer, pc, trail, scheme, port,
      done, dest_closed, dest_fired, req, resp, switch_protocol,
      src_conn_closed, dest_conn_closed, nreq, log, error, raised,
      stream, heap, codec, conns>>

\* stream.close() in handle_stream
HandleStreamClose ==
    /\ src_closed' = TRUE
    /\ src_fired' = IF src_closed THEN src_fired ELSE src_fired + 1

\* ProxyServer(config): its ProxyServerHandler(config)
HandlerNew ==
    /\ handler.op = "init"
    /\ \E cfg \in HandlerConfigs : handler' = ProxyServerHandler_init(cfg)
    /\ UNCHANGED off_handler

\* get_layer is called on the handler with a context of its own,
\* Context(port=p): handle_stream does not get as far as this call.
HandlerGetLayer ==
    /\ handler.op = "new"
    /\ \E p \in Ports : handler' = get_layer(handler, p)
    /\ UNCHANGED off_handler

\* handle_stream is called with the stream of an accepted connection and
\* waits for read_and_return_addr.
HandleStream ==
    /\ handler.op = "new"
    /\ handler' = [handler EXCEPT !.op = "handle_stream"]
    /\ UNCHANGED off_handler

\* What read_and_return_addr and create_dest_stream end with, besides an
\* address and a connected stream.
AddrOutcomes == {"addr", "TimeoutError", "Exception"}
DestOutcomes == {"connected", "TimeoutError", "Exception"}

\* handle_stream resumes with the address the client asked for and waits
\* for create_dest_stream, or with the exception read_and_return_addr
\* raised: the stream is closed, a timeout unlogged.
HandleStreamAddr ==
    /\ handler.op = "handle_stream"
    /\ \E o \in AddrOutcomes :
         IF o = "addr"
         THEN /\ \E p \in Ports :
                   handler' = [handler EXCEPT !.op = "create_dest_stream",
                                              !.port = p]
              /\ UNCHANGED <<src_closed, src_fired>>
         ELSE /\ handler' = [(IF o = "TimeoutError" THEN handler
                               ELSE handle_stream_except(handler))
                                EXCEPT !.op = "closed", !.exc = o]
              /\ HandleStreamClose
    /\ UNCHANGED handle_stream_frame

\* handle_stream resumes with the destination stream and calls
\* run_next_layer, whose exception it logs, closing the stream; or it
\* resumes with the exception of create_dest_stream and closes the stream,
\* a timeout unlogged.
HandleStreamDest ==
    /\ handler.op = "create_dest_stream"
    /\ \E o \in DestOutcomes :
         IF o = "connected"
         THEN LET h == run_next_layer(handler, handler.port)
              IN  IF h.exc = "none"
                  THEN /\ handler' = h
                       /\ UNCHANGED <<src_closed, src_fired>>
                  ELSE /\ handler' = [handle_stream_except(h)
                                         EXCEPT !.op = "closed"]
                       /\ HandleStreamClose
         ELSE /\ handler' = [(IF o = "TimeoutError" THEN handler
                               ELSE handle_stream_except(handler))
                                EXCEPT !.op = "closed", !.exc = o]
              /\ HandleStreamClose
    /\ UNCHANGED handle_stream_frame

NextHandler ==
    \/ HandlerNew
    \/ HandlerGetLayer
    \/ HandleStream
    \/ HandleStreamAddr
    \/ HandleStreamDest

SpecHandler == InitStream /\ [][NextHandler]_vars

\* ------------------------------------------------------------- properties
Idx(e) == {i \in DOMAIN log : log[i].ev = e}
IdxOf(e, n) == {i \in DOMAIN log : log[i].ev = e /\ log[i].r = n}
Requests == 1..nreq

\* A response for request n was written back on the source engine.
Completed(n) ==
    IdxOf("send_response", n) \cup IdxOf("send_info_response", n) # {}

\* C1: for every completed request r, publish is called exactly once, with r
\* and the response written to the source for it; never zero times and never
\* twice, whatever informational and final responses the destination sent.
C1_PublishExactlyOnce ==
    \A n \in Requests :
        /\ Cardinality(IdxOf("publish", n)) = IF Completed(n) THEN 1 ELSE 0
        /\ \A i \in IdxOf("publish", n) :
              /\ log[i].path = Paths[n]
              /\ \E j \in IdxOf("send_response", n)
                          \cup IdxOf("send_info_response", n) :
                    j < i /\ log[j].code = log[i].code

\* C2: requests are handled in wire order without overlap: request n + 1 is
\* read from the source and handed on only after the final response to
\* request n was written to the source, and responses go out in the order
\* of their requests, each after its request went to the destination.
C2_NoPipeliningOverlap ==
    /\ \A i \in Idx("request") :
          /\ Cardinality({j \in Idx("request") : j <= i}) = log[i].r
          /\ log[i].r > 1 =>
                \E j \in IdxOf("send_response", log[i].r - 1) : j < i
    /\ \A i \in Idx("send_response") \cup Idx("send_info_response") :
          /\ \E j \in IdxOf("send_request", log[i].r) : j < i
          /\ \A j \in Idx("send_response") \cup Idx("send_info_response") :
                j < i => log[j].r <= log[i].r

C2_Witness ==
    /\ IdxOf("request", 2) # {}
    /\ IdxOf("send_response", 2) # {}

\* A transaction of a persistent connection: request n and its only
\* response, a final one, carry no Connection: close, and the mode is not
\* replay.
KeepAliveTx(n) ==
    /\ mode # "replay"
    /\ \A i \in IdxOf("request", n) : ~log[i].cl
    /\ \A i \in IdxOf("response", n) : log[i].code = 200 /\ ~log[i].cl
    /\ Cardinality(IdxOf("response", n)) = 1

\* C3: on a persistent connection GET /a then GET /b give exactly two
\* publishes, /a then /b; finish starts a new cycle on both engines after
\* each, and no stream is closed between the two transactions.
C3_KeepAlive ==
    \A n \in Requests :
        KeepAliveTx(n) =>
            /\ Cardinality(IdxOf("publish", n)) <= 1
            /\ \A i \in IdxOf("publish", n) :
                  /\ log[i].path = Paths[n]
                  /\ i < Len(log) /\ log[i + 1].ev = "start_next_cycle"
                  /\ \A k \in IdxOf("request", n + 1) :
                        /\ i < k
                        /\ \A j \in i..k :
                              log[j].ev \notin {"close_src", "close_dest"}
                  /\ \A k \in IdxOf("publish", n + 1) : i < k

C3_Witness ==
    /\ KeepAliveTx(1) /\ KeepAliveTx(2)
    /\ SelectSeq(log, LAMBDA e : e.ev \in {"publish", "close_src", "close_dest"})
          = << Ev("publish", 1, 200, "/a"), Ev("publish", 2, 200, "/b") >>
    /\ ~src_closed /\ ~dest_closed

\* C4: every interceptor.request(c, r) has at most one interceptor.response
\* (c, r, _) paired with it, and the response calls come in the order of the
\* request calls, also when a 1xx is followed by a final response.
C4_AtMostOneResponseCall ==
    /\ \A n \in Requests : Cardinality(IdxOf("response", n)) <= 1
    /\ \A i, j \in Idx("response") : i < j => log[i].r < log[j].r

\* C5: an informational response latches switch_protocol only if the
\* request carried an Upgrade header; a 1xx answer to a request without
\* Upgrade neither latches it nor ends the Http1Layer loop.
C5_LatchOnlyOnUpgrade ==
    (layer = "Http1Layer" /\ req # NoReq
     /\ HttpHeaders_getitem(req.headers, "Upgrade") = <<>>)
        => /\ ~switch_protocol
           /\ (resp.code = 100 /\ ~src_closed /\ ~dest_closed)
                 => pc # "layer_returned"

\* The state in which Http1Layer has returned after a 101 to a request whose
\* Upgrade header is u, outside replay mode.
SwitchedTo(u) ==
    /\ layer = "Http1Layer" /\ pc = "layer_returned"
    /\ mode # "replay"
    /\ resp.code = 101
    /\ HttpHeaders_getitem(req.headers, "Upgrade") = <<u>>

\* C6: after Upgrade: websocket answered with 101 the 1xx was forwarded,
\* switch_protocol is latched, the layer returns with context.scheme equal
\* to the string "websocket", and the next layer is ForwardLayer.
C6_WebsocketToForwardLayer ==
    SwitchedTo("websocket") =>
        /\ IdxOf("send_info_response", req.r) # {}
        /\ switch_protocol
        /\ scheme = PyStr("websocket")
        /\ next_layer(layer, scheme, port, done) = "ForwardLayer"

\* C7: when Http1Layer exits on a protocol switch whose Upgrade value is
\* h2c, the next layer is Http2Layer.
C7_H2cToHttp2Layer ==
    SwitchedTo("h2c") =>
        next_layer(layer, scheme, port, done) = "Http2Layer"

\* C8: switch_protocol is a one-way latch of the connection: once true it is
\* never false again, whatever layer the LayerManager starts next.
C8_SwitchProtocolLatch == [][switch_protocol => switch_protocol']_vars

C8_Witness ==
    /\ switch_protocol /\ pc = "done"
    /\ scheme = PyList(<<"websocket">>)

\* C9: in replay mode, once the injected request's response was handled, the
\* transaction is published, both streams are closed and run_layers returns
\* without starting a further layer.
C9_ReplayTerminates ==
    (mode = "replay" /\ Idx("send_response") # {}) =>
        /\ Idx("publish") # {}
        /\ src_closed /\ dest_closed
        /\ trail = <<"ReplayLayer", "Http1Layer">>

\* C10: the source stream is closed exactly once: its close never takes
\* effect twice, and when the pipeline has terminated, normally or by an
\* error, the source stream is closed.
C10_SourceClosedOnce ==
    /\ src_fired <= 1
    /\ (pc = "done" /\ trail # <<>>) => (src_closed /\ src_fired = 1)

\* The layer that ran last failed and run_layers handled the error.
LayerErrorHandled == pc = "done" /\ error # "none" /\ trail # <<>>

\* _handle_layer_error called close() on the source stream: the call that
\* follows its logger call.
ManagerClosedSource ==
    \E i \in 1..(Len(log) - 1) :
        log[i].ev = "layer_error" /\ log[i + 1].ev = "close_src"

\* Once an error is handled nothing runs any more: the handler's logger call
\* is the last call but for its own close().
PipelineTerminated ==
    /\ \A i \in Idx("layer_error") :
          i = Len(log) \/ (i + 1 = Len(log) /\ log[i + 1].ev = "close_src")
    /\ Cardinality(Idx("layer_error")) = 1

\* C11: when a layer fails the manager starts no further layer and closes
\* the source stream for every error class except DestNotConnectedError,
\* for which it leaves the source stream untouched (the claim as stated).
C11_ClosesSourceUnlessDestNotConnected ==
    LayerErrorHandled =>
        /\ PipelineTerminated
        /\ ManagerClosedSource <=> error # "DestNotConnectedError"

\* C11 (amended): the manager leaves the source stream untouched for
\* DestNotConnectedError and for SrcStreamClosedError, and closes it for
\* every other error class; but for DestNotConnectedError the source stream
\* is closed when the pipeline has terminated.
C11_ClosesSourceUnlessNotConnectedOrSrcClosed ==
    LayerErrorHandled =>
        /\ PipelineTerminated
        /\ ManagerClosedSource <=>
              error \notin {"DestNotConnectedError", "SrcStreamClosedError"}
        /\ error # "DestNotConnectedError" => src_closed

\* A request was in flight when the source stream closed: the layer failed
\* with SrcStreamClosedError and the manager made no close() call.
C11_Witness ==
    /\ LayerErrorHandled /\ error = "SrcStreamClosedError"
    /\ layer = "Http1Layer" /\ ~ManagerClosedSource /\ src_closed

\* The source stream was closed by its peer: no close() call of the proxy
\* closed it.
SrcPeerClosed ==
    src_closed /\ \A i \in Idx("close_src") : log[i].code = 0

\* C12: if the source stream closes during an Http1Layer cycle the layer
\* closes the destination stream; SrcStreamClosedError propagates if and
\* only if a request is in flight, otherwise the error is swallowed and the
\* layer returns the context.  Looked at in the step that ends a layer whose
\* source stream its peer closed while a cycle was under way.  (Cycles that
\* a plugin result or a closed destination stream ended are left aside, and
\* so is the replay mode, whose source engine writes nothing.)
C12_SourceCloseClosesDest ==
    [][(/\ layer = "Http1Layer" /\ pc \in Http1Pending
        /\ pc' \in {"layer_returned", "done"}
        /\ SrcPeerClosed /\ ~src_readonly
        /\ error' \notin {"Exception", "DestStreamClosedError"})
       => /\ Idx("close_dest")' # {} /\ dest_closed'
          /\ error' = "SrcStreamClosedError" <=> req' # NoReq
          /\ req' = NoReq => error' = "none"]_vars

\* The step forwards a request that was read from the source stream to a
\* destination stream that is closed.
SendOnClosedDest ==
    pc = "run_request" /\ dest_closed /\ nreq' = nreq + 1 /\ req' # NoReq

\* The step resumes the read of the response on a closed destination stream.
ReadOnClosedDest ==
    pc = "run_response" /\ dest_closed /\ pc' # pc

\* The step issues the read of the response on a closed destination stream.
ReadIssuedOnClosedDest ==
    pc = "request_returned" /\ raised = "none" /\ dest_closed /\ pc' # pc

\* process_and_return_context resumes with the DestStreamClosedError of
\* run_request or run_response.
DestErrorAtLayer ==
    /\ pc \in {"request_returned", "response_returned"}
    /\ raised = "DestStreamClosedError" /\ pc' # pc

\* run_layers resumes with the DestStreamClosedError of the layer.
DestErrorAtManager ==
    pc = "layer_raised" /\ raised = "DestStreamClosedError" /\ pc' # pc

ClosesSourceOnce ==
    /\ src_closed'
    /\ Cardinality(Idx("close_src"))' = Cardinality(Idx("close_src")) + 1
    /\ Idx("send_request")' = Idx("send_request")
    /\ Idx("publish")' = Idx("publish")

\* C13: if the destination stream is closed when the request is sent or
\* the response is read, run_request or run_response ends with
\* DestStreamClosedError, the layer closes the source stream and raises
\* the error again, and run_layers catches it (and closes the source
\* stream once more), in every cycle.
C13_DestClosePropagates ==
    [][/\ SendOnClosedDest
          => /\ raised' = "DestStreamClosedError" /\ pc' = "request_returned"
             /\ Idx("send_request")' = Idx("send_request")
       /\ ReadOnClosedDest
          => /\ raised' = "DestStreamClosedError" /\ pc' = "response_returned"
             /\ log' = log
       /\ (ReadIssuedOnClosedDest \/ DestErrorAtLayer)
          => /\ raised' = "DestStreamClosedError" /\ pc' = "layer_raised"
             /\ ClosesSourceOnce
       /\ DestErrorAtManager
          => /\ error' = "DestStreamClosedError" /\ pc' = "done"
             /\ ClosesSourceOnce]_vars

\* The destination stream closed in the second cycle of a connection and
\* the layer failed with DestStreamClosedError.
C13_Witness ==
    /\ layer = "Http1Layer" /\ error = "DestStreamClosedError"
    /\ nreq = 2 /\ IdxOf("send_request", 1) # {} /\ src_closed

\* The layer returned the context and _next_layer is about to be called.
Returned(l) == pc = "layer_returned" /\ layer = l

\* _next_layer chose layer l and run_layers starts it.
Chose(l) == pc' = "layer_start" /\ layer' = l /\ trail' = Append(trail, l)

\* _next_layer chose no layer: run_layers returns.
ChoseNone == pc' = "done" /\ trail' = trail /\ layer' = layer

IsHttpPort == port = 80 \/ \E i \in DOMAIN http_port : http_port[i] = port
IsHttpsPort == port = 443 \/ \E i \in DOMAIN https_port : https_port[i] = port

\* C14: after SocksLayer or TransparentLayer the next layer is Http1Layer,
\* with the scheme set to "http", when the port is 80 or a configured http
\* port; TlsLayer when it is (not such a port and) 443 or a configured https
\* port; ForwardLayer for every other port.  After HttpProxyLayer the next
\* layer is always Http1Layer.
C14_RouteAfterEntryLayer ==
    [][/\ (Returned("SocksLayer") \/ Returned("TransparentLayer"))
          => IF IsHttpPort THEN Chose("Http1Layer") /\ scheme' = PyStr("http")
             ELSE IF IsHttpsPort THEN Chose("TlsLayer")
             ELSE Chose("ForwardLayer")
       /\ Returned("HttpProxyLayer") => Chose("Http1Layer")]_vars

\* A configured http port led from SocksLayer to Http1Layer.
C14_Witness ==
    /\ trail = <<"SocksLayer", "Http1Layer">> /\ pc = "layer_start"
    /\ port = 8080 /\ scheme = PyStr("http")

\* C15: after TlsLayer the next layer is Http1Layer for the scheme "https",
\* Http2Layer for "h2" and ForwardLayer otherwise; after ReplayLayer it is
\* Http1Layer for "http" or "https", Http2Layer for "h2" and ForwardLayer
\* otherwise.
C15_RouteAfterTlsAndReplay ==
    [][/\ Returned("TlsLayer")
          => IF scheme = PyStr("https") THEN Chose("Http1Layer")
             ELSE IF scheme = PyStr("h2") THEN Chose("Http2Layer")
             ELSE Chose("ForwardLayer")
       /\ Returned("ReplayLayer")
          => IF scheme \in {PyStr("http"), PyStr("https")}
             THEN Chose("Http1Layer")
             ELSE IF scheme = PyStr("h2") THEN Chose("Http2Layer")
             ELSE Chose("ForwardLayer")]_vars

\* TlsLayer returned a context whose scheme is neither "https" nor "h2" and
\* ForwardLayer was started.
C15_Witness ==
    /\ trail = <<"TlsLayer", "ForwardLayer">> /\ pc = "layer_start"
    /\ scheme = PyStr("http")

\* C16: after Http1Layer the next layer is ForwardLayer for the scheme
\* "websocket", TlsLayer for "https" when the context is not done,
\* Http1Layer for "http" when it is not done; in every other case, and
\* after ForwardLayer and Http2Layer, no layer is chosen and the pipeline
\* terminates.
C16_RouteAfterHttp1 ==
    [][/\ Returned("Http1Layer")
          => IF scheme = PyStr("websocket") THEN Chose("ForwardLayer")
             ELSE IF scheme = PyStr("https") /\ ~done THEN Chose("TlsLayer")
             ELSE IF scheme = PyStr("http") /\ ~done THEN Chose("Http1Layer")
             ELSE ChoseNone
       /\ (Returned("ForwardLayer") \/ Returned("Http2Layer")) => ChoseNone]_vars

\* Http1Layer returned a done context with the scheme "http": no layer
\* followed.
C16_Witness ==
    /\ trail = <<"Http1Layer">> /\ pc = "done" /\ error = "none"
    /\ scheme = PyStr("http") /\ done

\* The starting layer of each supported mode.
FirstLayerOf ==
    [m \in Modes |-> CASE m = "socks" -> "SocksLayer"
                       [] m = "transparent" -> "TransparentLayer"
                       [] m = "http" -> "HttpProxyLayer"
                       [] m = "replay" -> "ReplayLayer"]

\* C17: the starting layer is determined by the mode alone, socks giving
\* SocksLayer, transparent TransparentLayer, http HttpProxyLayer and replay
\* ReplayLayer; any other mode is rejected with an error and no layer is
\* created.
C17_FirstLayerByMode ==
    IF mode \in DOMAIN FirstLayerOf
    THEN trail # <<>> /\ trail[1] = FirstLayerOf[mode]
    ELSE /\ trail = <<>> /\ layer = "None" /\ log = <<>>
         /\ error = "ValueError" /\ pc = "done"

\* A connection of a mode that is not supported: rejected, no layer.
C17_Witness ==
    mode \notin Modes /\ error = "ValueError" /\ trail = <<>>

\* The greeting was read and answered; the answer is the first message sent.
GreetingAnswered == socks.greeting # NoGreeting /\ Len(socks.sent) >= 1

\* C18: the reply to a SOCKS greeting has version 5 whatever version the
\* client sent and selects NO_AUTH if and only if NO_AUTH is offered; when
\* it is not offered the reply carries the no-supported-auth-method code,
\* the layer closes and never handles a request.
C18_GreetingReply ==
    /\ socks.greeting # NoGreeting => Len(socks.sent) >= 1
    /\ GreetingAnswered =>
         LET reply == socks.sent[1]
             offered == "NO_AUTH" \in socks.greeting.methods
         IN  /\ reply.version = 5
             /\ reply.auth_type = "NO_AUTH" <=> offered
             /\ ~offered =>
                  /\ reply.auth_type = "NO_SUPPORT_AUTH_METHOD"
                  /\ src_closed /\ pc = "done" /\ error # "none"
                  /\ socks.request = NoSocksRequest /\ socks.connects = 0
                  /\ Len(socks.sent) = 1 /\ trail = <<"SocksLayer">>

\* A version 4 greeting that offers GSSAPI only was answered with version
\* 5 and refused.
C18_Witness ==
    /\ GreetingAnswered /\ socks.greeting.version = 4
    /\ socks.greeting.methods = {"GSSAPI"}
    /\ socks.sent[1].version = 5 /\ src_closed

\* The Response the layer sent to the request it read.
RequestReply == socks.sent[2]

\* The Response echoes the request's atyp, addr and port.
EchoesRequest(reply) ==
    /\ reply.atyp = socks.request.atyp
    /\ reply.addr = socks.request.addr
    /\ reply.port = socks.request.port

\* The reply packed from the bytes of the request echoes the request's
\* atyp, addr (as the bytes of an IPv4 address) and port.
EchoesWire(reply) ==
    /\ reply.atyp = socks.request.atyp
    /\ reply.addr = SubSeq(socks_request_wire(socks.request), 5, 8)
    /\ reply.port = socks.request.port

\* C19: a request whose command is not CONNECT is answered with
\* COMMAND_NOT_SUPPORTED echoing the request's atyp, addr and port; the
\* layer fails with ProtocolError and makes no attempt to connect.
C19_CommandNotSupported ==
    (socks.request # NoSocksRequest /\ socks.request.cmd # "CONNECT")
    => /\ Len(socks.sent) = 2
       /\ RequestReply.status = "COMMAND_NOT_SUPPORTED"
       /\ EchoesRequest(RequestReply)
       /\ error = "ProtocolError" /\ pc = "done"
       /\ socks.connects = 0 /\ socks.outcome = ""
       /\ trail = <<"SocksLayer">>

\* A BIND request for a domain name was refused.
C19_Witness ==
    /\ socks.request.cmd = "BIND" /\ socks.request.atyp = "DOMAINNAME"
    /\ Len(socks.sent) = 2 /\ error = "ProtocolError"

\* The connect of a CONNECT request failed while the source stream was open.
ConnectFailed ==
    socks.outcome \notin {"", "connected"} /\ ~src_closed

\* C20: when the connect fails the reply's status is NETWORK_UNREACHABLE
\* for a connect timeout or errno ETIMEDOUT, ADDRESS_TYPE_NOT_SUPPORTED for
\* errno ENOEXEC or EBADF and GENERAL_FAILURE for any other socket error;
\* the reply is sent and the layer then fails with DestNotConnectedError.
C20_ConnectFailureStatus ==
    /\ ConnectFailed =>
         /\ Len(socks.sent) = 2
         /\ socks.outcome \in {"TimeoutError", "ETIMEDOUT"}
              => RequestReply.status = "NETWORK_UNREACHABLE"
         /\ socks.outcome \in {"ENOEXEC", "EBADF"}
              => RequestReply.status = "ADDRESS_TYPE_NOT_SUPPORTED"
         /\ socks.outcome \notin {"TimeoutError", "ETIMEDOUT", "ENOEXEC", "EBADF"}
              => RequestReply.status = "GENERAL_FAILURE"
         /\ error = "DestNotConnectedError" /\ pc = "done"
         /\ trail = <<"SocksLayer">>
    /\ (layer = "SocksLayer" /\ error = "DestNotConnectedError")
         => ConnectFailed /\ Len(socks.sent) = 2

\* The connect failed with errno ETIMEDOUT and the client was told that
\* the network is unreachable.
C20_Witness ==
    /\ ConnectFailed /\ socks.outcome = "ETIMEDOUT"
    /\ Len(socks.sent) = 2 /\ RequestReply.status = "NETWORK_UNREACHABLE"
    /\ error = "DestNotConnectedError"

\* C21: in every SOCKS reply to a request (success, command not supported
\* or a connect failure) the atyp, addr and port of the reply equal those
\* of the client's request; the reply of the layered SocksLayer and, for a
\* connected destination, the reply on_socks_ready of src/proxy.py packs.
C21_ReplyEchoesRequest ==
    /\ Len(socks.sent) >= 2 => EchoesRequest(RequestReply)
    /\ socks.state = "READY" => EchoesWire(on_socks_ready(
                                    on_socks_request(socks_request_wire(socks.request))))

\* The order the states of the SocksLayer are entered in.
SocksOrder ==
    { <<"INIT", "GREETED">>, <<"GREETED", "REQUESTED">>, <<"REQUESTED", "READY">> }

\* The destination is the one the request names: an IPv4 address given by
\* its four bytes, and the request's port.
ConnectsToRequest(dest) ==
    /\ socks.request.atyp = "IPV4"
    /\ dest.host = SubSeq(socks_request_wire(socks.request), 5, 8)
    /\ dest.port = socks.request.port

\* C22: the SOCKS layer advances INIT, GREETED, REQUESTED, READY in that
\* order only; a request is handled only after the greeting was answered;
\* after the greeting reply and until the connect has its outcome the
\* layer's result is pending; the layer returns only once the success reply
\* was sent, with the request's host and port in the context and a
\* connected destination stream that is not closed; the SocksLayer of
\* src/proxy.py, which hands the stream on when on_socks_ready has
\* written its reply, connects to and hands on the request's host and port.
C22_HandshakeOrder ==
    [][/\ socks'.state # socks.state => <<socks.state, socks'.state>> \in SocksOrder
       /\ socks'.request # socks.request
            => /\ socks.state = "GREETED" /\ socks.request = NoSocksRequest
               /\ Len(socks.sent) = 1 /\ socks.sent[1].auth_type = "NO_AUTH"
       /\ (socks'.state # socks.state /\ socks'.state \in {"GREETED", "REQUESTED"})
            => pc' = "layer_start" /\ error' = "none"
       /\ (layer = "SocksLayer" /\ pc' = "layer_returned" /\ pc # pc')
            => /\ socks.state = "REQUESTED" /\ socks'.state = "READY"
               /\ Len(socks'.sent) = 2
               /\ socks'.sent[2].status = "SUCCESS"
               /\ socks'.host = socks.request.addr
               /\ port' = socks.request.port
               /\ socks'.outcome = "connected" /\ ~dest_closed'
               /\ ConnectsToRequest(socks_dest(
                      on_socks_request(socks_request_wire(socks.request))))
       /\ socks'.state = "READY" => socks'.sent[Len(socks'.sent)].status = "SUCCESS"
      ]_vars

\* C23: if the source stream closes at any point of the SOCKS handshake,
\* before READY, the layer fails with SrcStreamClosedError and never returns
\* a context: from then on it does not reach READY, and the step that ends
\* it hands SrcStreamClosedError to run_layers, which starts no layer.
C23_SourceClosedInHandshake ==
    [][(layer = "SocksLayer" /\ pc = "layer_start" /\ SrcPeerClosed)
       => /\ socks.state # "READY" /\ socks'.state # "READY"
          /\ trail' = <<"SocksLayer">>
          /\ pc' \in {"layer_start", "done"}
          /\ pc' = "done" => error' = "SrcStreamClosedError"]_vars

\* The client went away while the destination was being connected.
C23_Witness ==
    /\ layer = "SocksLayer" /\ SrcPeerClosed /\ socks.state = "REQUESTED"
    /\ pc = "done" /\ error = "SrcStreamClosedError"

\* C24: the destination connect is bounded by a 5-second deadline: a
\* connect is never pending for longer; when the deadline expires the
\* attempt is abandoned, the client is told NETWORK_UNREACHABLE, the layer
\* fails with DestNotConnectedError and no further layer is run.
C24_ConnectDeadlineFiveSeconds ==
    /\ socks.state = "REQUESTED" => socks.waited <= 5
    /\ (socks.outcome = "TimeoutError" /\ ~src_closed)
         => /\ socks.waited = 5
            /\ RequestReply.status = "NETWORK_UNREACHABLE"
            /\ error = "DestNotConnectedError" /\ pc = "done"
            /\ trail = <<"SocksLayer">>

\* What the stream holds and what still waits in the socket.
StreamData == stream.buf \o stream.sock

\* The step serves a read of kind k on the open stream: the call that
\* issues it, or the socket becoming readable while it is pending.
Served(k) ==
    /\ stream'.op \in {"read", "readable"} /\ ~stream.closed
    /\ stream'.last.kind = k

\* C25: read_until(delim, max_bytes) returns the prefix up to and including
\* the delimiter when the delimiter ends at or before max_bytes; when it is
\* not found within the first max_bytes bytes the read delivers nothing,
\* the stream is closed and the close callback fires, also when the
\* delimiter comes with the bytes that overshoot, and whether the data was
\* there before the read was issued or came after.
C25_ReadUntilMaxBytes ==
    [][(Served("until") /\ stream'.last.n > 0)
       => LET e == DelimEnd(StreamData)
              m == stream'.last.n
          IN  IF e > 0 /\ e <= m
              THEN /\ stream'.results = Append(stream.results, SubSeq(StreamData, 1, e))
                   /\ StreamData' = SubSeq(StreamData, e + 1, Len(StreamData))
                   /\ ~stream'.closed /\ stream'.close_cb = 0
              ELSE IF Len(StreamData) > m
              THEN /\ stream'.results = stream.results
                   /\ stream'.closed /\ stream'.close_cb = stream.close_cb + 1
                   /\ stream'.read = NoRead
              ELSE stream'.results = stream.results]_vars

\* The delimiter came in the packet that overshoots max_bytes = 2: nothing
\* was delivered and the stream was closed.
C25_Witness ==
    /\ stream.last = [kind |-> "until", n |-> 2]
    /\ stream.written = <<"a", "d", "e">>
    /\ stream.results = <<>> /\ stream.closed /\ stream.close_cb = 1
    /\ stream.closes = 0 /\ ~stream.peer_closed

\* The read a step of the open stream works on: the one the call issues,
\* the pending one when the socket becomes readable, none for the idle stream.
ReadAtStep ==
    IF stream'.op = "read" THEN stream'.last
    ELSE IF stream'.op = "readable" THEN stream.read
    ELSE NoRead

\* What of StreamData the read buffer can hold.
StreamTake == SubSeq(StreamData, 1, Min(Len(StreamData), MaxBufferSize))

\* the step fails a read_until with max_bytes over its limit
Overshoot ==
    /\ ReadAtStep.kind = "until" /\ ReadAtStep.n > 0
    /\ find_read_pos(ReadAtStep, StreamTake) = -2

\* C26: when the peer has closed and the stream still holds data, in its
\* buffer or in the socket, that satisfies the pending read or a later one,
\* the read completes with that data, in the order written, and the close
\* callback does not fire in that step; the close of the peer is surfaced
\* only when the socket has been emptied and what is buffered does not
\* satisfy the read, and to an idle stream only when its buffer is empty.
C26_CloseAfterBufferedReads ==
    [][(~stream.closed /\ stream'.op \in {"read", "readable", "idle_close"})
       => /\ (ReadAtStep # NoRead /\ find_read_pos(ReadAtStep, StreamTake) >= 0)
             => /\ Len(stream'.results) = Len(stream.results) + 1
                /\ Flat(stream'.results)
                     = SubSeq(stream.written, 1, Len(Flat(stream'.results)))
                /\ stream'.close_cb = stream.close_cb /\ ~stream'.closed
          /\ (stream'.close_cb > stream.close_cb /\ ~Overshoot)
             => /\ stream.peer_closed /\ stream'.sock = <<>>
                /\ find_read_pos(ReadAtStep, StreamData) = -1
                /\ ReadAtStep = NoRead => stream.buf = <<>>
                /\ ReadAtStep.kind = "until_close"
                     => /\ stream'.results = Append(stream.results, StreamData)
                        /\ stream'.buf = <<>>]_vars

\* The peer wrote three bytes and closed; read_bytes(1) got the first byte,
\* read_until_close the other two, and then the close callback fired.
C26_Witness ==
    /\ stream.peer_closed /\ stream.written = <<"a", "d", "e">>
    /\ stream.results = << <<"a">>, <<"d", "e">> >>
    /\ stream.last.kind = "until_close"
    /\ stream.closed /\ stream.close_cb = 1 /\ stream.closes = 0

\* C27: close() is idempotent: over any sequence of close() calls and peer
\* closes the close callback has fired exactly once when the stream is
\* closed and never more than once, it fires also when a read that cannot
\* be satisfied is pending, and once the stream is closed no read callback
\* and no completion callback of a write fires, none stays pending and the
\* socket is given nothing more.
C27_CloseOnce ==
    [][/\ stream'.close_cb <= 1
       /\ stream'.closed <=> stream'.close_cb = 1
       /\ stream'.closed => (stream'.read = NoRead /\ ~stream'.wcb)
       /\ stream.closed => /\ stream'.closed
                           /\ stream'.results = stream.results
                           /\ stream'.write_cb = stream.write_cb
                           /\ stream'.accepted = stream.accepted
                           /\ stream'.close_cb = stream.close_cb]_vars

\* read_bytes(3) was pending with one byte written, and a write waited for
\* the socket, when the peer closed; close() was then called twice and a
\* further read was refused: the close callback fired once, the pending
\* read got nothing and the completion callback of the write never ran.
C27_Witness ==
    /\ stream.last = [kind |-> "bytes", n |-> 3] /\ stream.cancelled = 1
    /\ stream.written = <<"a">> /\ stream.peer_closed
    /\ stream.writes = 1 /\ stream.write_cb = 0 /\ stream.accepted = <<>>
    /\ stream.closes = 2 /\ stream.errors = 1
    /\ stream.closed /\ stream.close_cb = 1 /\ stream.results = <<>>

\* C28: flow control: the read buffer never holds more than max_buffer_size
\* bytes; a stream whose buffer is full takes nothing from the socket in a
\* step that delivers nothing; what was delivered, what is buffered and what
\* waits in the socket are together exactly what the peer wrote, in order;
\* and no read step closes the stream for another reason than the end of
\* file or a read_until over its max_bytes.
C28_FlowControl ==
    [][/\ Len(stream'.buf) <= MaxBufferSize
       /\ Flat(stream'.results) \o stream'.buf \o stream'.sock = stream'.written
       /\ (Len(stream.buf) = MaxBufferSize /\ stream'.results = stream.results)
          => /\ stream'.buf = stream.buf
             /\ SubSeq(stream'.sock, 1, Len(stream.sock)) = stream.sock
       /\ (~stream.closed /\ stream'.closed
             /\ stream'.op \in {"read", "readable"} /\ ~Overshoot)
          => at_eof(stream')]_vars

\* A read_until without max_bytes is pending, the buffer is full without a
\* delimiter and the peer's fourth byte waits in the socket.
C28_Witness ==
    /\ stream.read = [kind |-> "until", n |-> 0] /\ ~stream.closed
    /\ Len(stream.buf) = MaxBufferSize /\ stream.sock # <<>>
    /\ stream.op = "readable"

\* C29: read_partial(max) with max > 0 completes in the step in which at
\* least one byte is available, with between 1 and max of the first bytes,
\* never with none, and leaves the rest for the next read; with max = 0 it
\* completes at once with the empty string and takes nothing.
C29_PartialRead ==
    [][Served("partial")
       => IF stream'.last.n = 0
          THEN /\ stream'.results = Append(stream.results, <<>>)
               /\ stream'.buf = stream.buf /\ stream'.sock = stream.sock
               /\ ~stream'.closed
          ELSE IF StreamData # <<>>
          THEN /\ \E k \in 1..Min(stream'.last.n, Len(StreamData)) :
                    /\ stream'.results = Append(stream.results, SubSeq(StreamData, 1, k))
                    /\ StreamData' = SubSeq(StreamData, k + 1, Len(StreamData))
               /\ stream'.read = NoRead /\ ~stream'.closed
          ELSE stream'.results = stream.results]_vars

\* The peer wrote three bytes in one packet; read_partial(2) got the first
\* two and the third is left for the next read.
C29_Witness ==
    /\ stream.last = [kind |-> "partial", n |-> 2]
    /\ stream.written = <<"a", "d", "e">>
    /\ stream.results = << <<"a", "d">> >> /\ StreamData = <<"e">>
    /\ stream.read = NoRead /\ ~stream.closed

\* C30: start_tls on the idle plaintext stream, whatever plaintext traffic
\* went before, either yields one TLS stream over the same socket, which
\* has what the plaintext stream had buffered, or fails, and then there is
\* no stream and the socket is closed; the plaintext stream is of no use
\* afterwards; and on the TLS stream what was delivered, what is buffered
\* and what waits in the socket are exactly the bytes the peer wrote, before
\* and after the upgrade, in order.
C30_StartTls ==
    [][/\ stream'.op = "start_tls"
          => /\ stream.tls = "plain" /\ stream.gen = 0
             /\ stream'.results = stream.results
             /\ stream'.written = stream.written
             /\ IF stream'.tls = "tls"
                THEN /\ stream'.gen = 1 /\ ~stream'.closed
                     /\ stream'.buf = stream.buf /\ stream'.sock = stream.sock
                ELSE /\ stream'.tls = "failed" /\ stream'.gen = 0
                     /\ stream'.closed
       /\ stream'.op = "stale_use"
          => /\ stream.tls = "tls"
             /\ stream' = [stream EXCEPT !.stale = 1, !.op = "stale_use"]
       /\ stream'.tls = "tls"
          => /\ stream'.gen = 1
             /\ Flat(stream'.results) \o stream'.buf \o stream'.sock
                  = stream'.written
       /\ stream.tls = "failed"
          => /\ stream'.closed /\ stream'.gen = 0
             /\ stream'.results = stream.results
             /\ stream'.written = stream.written]_vars

\* The peer wrote "a" and "d" in plaintext, read_bytes(1) got "a" and left
\* "d" buffered; after start_tls the peer wrote "e" and a read_until on the
\* TLS stream got "de"; a use of the plaintext stream was refused.
C30_Witness ==
    /\ stream.tls = "tls" /\ stream.tls_at = 2 /\ stream.stale = 1
    /\ stream.written = <<"a", "d", "e">>
    /\ stream.results = << <<"a">>, <<"d", "e">> >>
    /\ stream.last.kind = "until" /\ ~stream.closed

\* C31: whatever the plugins do to the message Interceptor.request or
\* Interceptor.response hands them, its header list and body included, the
\* message the layer holds keeps the value it had before the call.
C31_PluginsGetDeepCopy ==
    heap.msg # 0 => MessageValue(heap, heap.request) = heap.snap

\* the calls of the interceptor for a message and of the engines to send one
InterceptorCalls == {"request", "response"}
SendCalls == {"send_request", "send_response", "send_info_response"}

\* C32: every message the interceptor was called for is forwarded next, the
\* request to the destination and the response to the source, as the plugin
\* result's message or else as the original, whatever the plugins returned
\* (nothing, a result with the message, a result without it); the one
\* exception is the last call when the stream to write to was closed. The
\* layer forwards no empty message and fails on none.
C32_ForwardsPluginResultOrOriginal ==
    /\ \A i \in 1..Len(log) :
         log[i].ev \in InterceptorCalls
         => \/ /\ i < Len(log)
               /\ log[i + 1].ev \in SendCalls /\ log[i + 1].r = log[i].r
            \/ /\ error \in {"DestStreamClosedError", "SrcStreamClosedError",
                              "StreamClosedError"}
               /\ \A j \in (i + 1)..Len(log) : log[j].ev \notin InterceptorCalls
    /\ \A i \in 1..Len(log) :
         log[i].ev = "send_request" => log[i].path = Paths[log[i].r]
    /\ error # "Exception"

\* the headers as [name, value] pairs, in order
HeaderPairs(headers) == [i \in 1..Len(headers) |-> <<headers[i].k, headers[i].v>>]

\* C33: a message serialized to its JSON form and built back from it is the
\* message it was in every field but the timestamp: version, method and
\* path or code and reason, the body byte for byte, and the headers as
\* pairs in their order with the duplicates.
C33_JsonRoundTrip ==
    codec.op = "deserialize"
    => /\ codec.back.cls = codec.msg.cls
       /\ codec.back.version = codec.msg.version
       /\ codec.back.first = codec.msg.first
       /\ codec.back.second = codec.msg.second
       /\ codec.back.body = codec.msg.body
       /\ HeaderPairs(codec.back.headers) = HeaderPairs(codec.msg.headers)

\* A response with a body of 58 bytes, whose base64 form has a second
\* line, and a repeated header went through the JSON form at a later second.
C33_Witness ==
    /\ codec.op = "deserialize" /\ codec.msg.cls = "HttpResponse"
    /\ Len(codec.msg.body) = 58 /\ Len(codec.json.body) = 82
    /\ codec.json.body[77] = 65 /\ codec.json.body[82] = 65
    /\ SubSeq(codec.json.body, 78, 81) = <<14, 16, 64, 64>>
    /\ Len(codec.msg.headers) = 3
    /\ codec.back.timestamp # codec.msg.timestamp

\* the states a resumption of a coroutine of the connection leads to when
\* the connection is on its own
CoroutineSteps(c) ==
    conn_start(c) \cup conn_run_request(c) \cup conn_after_request(c)
    \cup conn_run_response(c) \cup conn_after_response(c) \cup conn_raised(c)
    \cup conn_next_layer(c)

\* the states one step of a connection on its own leads to
AloneSteps(c) ==
    CoroutineSteps(c) \cup conn_src_peer_close(c) \cup conn_dest_peer_close(c)

\* run_layers of the connection has the event loop and does not give it
\* back: the layer it started returned at once, and the layer _next_layer
\* picks for the context it returned does the same.
Spins(c) ==
    /\ c.running /\ c.pc = "layer_returned"
    /\ \E n \in conn_next_layer(c) : conn_start(n) = {c}

\* Connection i has a step to take that it takes when it is on its own, and
\* never gets the event loop for it.
Starved(C, i) ==
    /\ CoroutineSteps(C[i]) # {}
    /\ \E j \in ConnIds \ {i} : Spins(C[j])

\* C34: under any interleaving of two connections every step changes the
\* state of one connection only (its req, resp, switch_protocol, scheme,
\* streams, forwarded messages and publishes), and changes it as a step of
\* that connection running alone does; and a connection takes every step
\* it takes alone: what a connection forwards and publishes is what it
\* forwards and publishes alone.
C34_ConnectionsIsolated ==
    [][/\ \A i \in ConnIds :
            conns'[i] = conns[i] \/ conns'[i] \in AloneSteps(conns[i])
       /\ \E i \in ConnIds : \A j \in ConnIds \ {i} : conns'[j] = conns[j]
       /\ \A i \in ConnIds : \A k \in 1..Len(conns'[i].log) :
            conns'[i].log[k].r \in {0} \cup
                ((conns[i].first + 1)..(conns[i].first + MaxTwoReq))
       /\ \A i \in ConnIds : ~Starved(conns', i)]_vars

\* the layer that holds the connection's streams: the one run_layers has
\* started and that has not returned or failed
Owner == IF pc \in {"layer_start"} \cup Http1Pending THEN layer ELSE "None"

\* C35: run_layers starts the next layer only when the current layer has
\* returned, so one layer at a time holds the streams; every read, write
\* and close a layer makes happens in a step of the layer that holds them,
\* and once the layer has returned or failed nothing more is read, written
\* or closed until the next layer has been started.
PeerClosed ==
    /\ UNCHANGED <<log, pc, layer, trail, socks>>
    /\ \/ ~src_closed /\ src_closed' /\ UNCHANGED <<dest_closed, dest_fired>>
       \/ ~dest_closed /\ dest_closed' /\ UNCHANGED <<src_closed, src_fired>>
C35_OneOwnerAtATime ==
    [][/\ trail' # trail
          => /\ pc = "layer_returned" /\ pc' = "layer_start"
             /\ trail' = Append(trail, layer') /\ Owner = "None"
       /\ (log' # log \/ socks'.sent # socks.sent)
          => /\ Owner = layer /\ layer' = layer
             /\ layer = trail[Len(trail)] /\ trail' = trail
       /\ Owner = "None"
          => \/ UNCHANGED <<log, src_closed, dest_closed, src_fired, dest_fired>>
             \/ PeerClosed]_vars

\* TlsLayer has returned and the Http1Layer started after it has sent a
\* request to the destination and waits for the response.
C35_Witness ==
    /\ trail = <<"SocksLayer", "TlsLayer", "Http1Layer">>
    /\ pc = "run_response" /\ Owner = "Http1Layer"
    /\ \E k \in 1..Len(log) : log[k].ev = "send_request"

\* C36: when an Http1Layer on a plain-http connection has returned without
\* a protocol switch, a stream being closed, run_layers starts no further
\* layer on the connection.
C36_NoLayerAfterClosedHttp1 ==
    [][(/\ pc = "layer_returned" /\ layer = "Http1Layer"
        /\ scheme = PyStr("http") /\ ~switch_protocol
        /\ (src_closed \/ dest_closed))
       => (trail' = trail /\ pc' = "done")]_vars

\* C37: on_response writes the response to the source before it publishes
\* the transaction and before it closes a stream or starts a new cycle; when
\* the source is closed the write fails, run_response ends with
\* SrcStreamClosedError and the transaction is never published.
AfterResponse(k) == {log'[j].ev : j \in (k + 1)..Len(log')}
WrittenThenPublished(k) ==
    /\ k + 2 <= Len(log')
    /\ log'[k + 1].ev = "send_response"
    /\ log'[k + 1].r = log'[k].r
    /\ log'[k + 2].ev = "publish"
    /\ log'[k + 2].r = log'[k].r
    /\ log'[k + 2].code = log'[k + 1].code
C37_ResponseWrittenBeforePublish ==
    [][/\ \A k \in (Len(log) + 1)..Len(log') :
             (log'[k].ev = "response" /\ log'[k].code \notin {100, 101})
             => \/ /\ raised' = "Exception"
                   /\ AfterResponse(k) = {}
                \/ /\ src_closed /\ mode # "replay"
                   /\ raised' = "SrcStreamClosedError"
                   /\ pc' = "response_returned"
                   /\ AfterResponse(k) = {}
                \/ /\ ~src_closed \/ mode = "replay"
                   /\ raised' = "none"
                   /\ WrittenThenPublished(k)
                   /\ \A j \in (k + 3)..Len(log') :
                         log'[j].ev \in {"close_src", "close_dest",
                                         "start_next_cycle"}
       /\ \A k \in 1..Len(log') :
             (log'[k].ev = "response" /\ log'[k].code \notin {100, 101})
             => \/ WrittenThenPublished(k)
                \/ \A j \in (k + 1)..Len(log') :
                      log'[j].ev \in {"close_src", "close_dest",
                                      "layer_error"}]_vars

\* The first response was written and published; the second met a closed
\* source: it is neither written nor published.
C37_Witness ==
    /\ error = "SrcStreamClosedError" /\ pc = "done"
    /\ \E k \in 1..Len(log) :
          /\ log[k].ev = "response" /\ log[k].r = 2 /\ log[k].code = 200
          /\ \A j \in (k + 1)..Len(log) :
                log[j].ev \notin {"send_response", "publish"}
    /\ \E k \in 1..(Len(log) - 2) :
          /\ log[k].ev = "response" /\ log[k].r = 1 /\ log[k].code = 200
          /\ log[k + 1].ev = "send_response" /\ log[k + 2].ev = "publish"

\* C38: in replay mode an informational response is published and both
\* streams are closed; switch_protocol stays false and the layer returns
\* with the scheme it was started with.
C38_ReplayBeforeSwitch ==
    [][mode = "replay"
       => /\ \A k \in (Len(log) + 1)..Len(log') :
                (log'[k].ev = "response" /\ log'[k].code \in {100, 101})
                => \/ raised' = "Exception" /\ k = Len(log')
                   \/ /\ k + 4 <= Len(log')
                      /\ log'[k + 1].ev = "send_info_response"
                      /\ log'[k + 2].ev = "publish"
                      /\ log'[k + 2].r = log'[k].r
                      /\ log'[k + 2].code = log'[k].code
                      /\ log'[k + 3].ev = "close_src"
                      /\ log'[k + 4].ev = "close_dest"
                      /\ src_closed' /\ dest_closed' /\ ~switch_protocol'
                      /\ pc' = "response_returned"
          /\ (pc = "response_returned" /\ raised = "none" /\ pc' # pc)
             => /\ pc' = "layer_returned" /\ scheme' = scheme
                /\ src_closed' /\ dest_closed' /\ ~switch_protocol'
                /\ log' = log]_vars

\* A replayed request that asks for an upgrade was answered 101: the
\* transaction is published, the streams are closed and the layer returned
\* without a switch.
C38_Witness ==
    /\ mode = "replay" /\ pc = "layer_returned" /\ layer = "Http1Layer"
    /\ src_closed /\ dest_closed /\ ~switch_protocol
    /\ scheme \in {PyStr("http"), PyStr("https")}
    /\ Len(log) >= 3
    /\ log[Len(log) - 2].ev = "publish" /\ log[Len(log) - 2].code = 101
    /\ HttpHeaders_getitem(req.headers, "Upgrade") # <<>>

\* C39: after SocksLayer or TransparentLayer a port that is both an http
\* port and an https port is served by Http1Layer with the scheme "http",
\* never by TlsLayer; outside the http-port branch _next_layer leaves the
\* scheme and the port of the context as they were.
HttpPortBranch ==
    /\ layer \in {"SocksLayer", "TransparentLayer"}
    /\ InList(port, <<80>> \o http_port)
C39_HttpRuleWins ==
    [][pc = "layer_returned"
       => /\ (HttpPortBranch /\ InList(port, <<443>> \o https_port))
             => /\ layer' = "Http1Layer" /\ pc' = "layer_start"
                /\ trail' = Append(trail, "Http1Layer")
                /\ scheme' = PyStr("http")
          /\ ~HttpPortBranch => (scheme' = scheme /\ port' = port)]_vars

\* Port 8080 is configured both as an http and as an https port: the
\* connection that left SocksLayer is served as plain http.
C39_Witness ==
    /\ port = 8080 /\ InList(8080, http_port) /\ InList(8080, https_port)
    /\ trail = <<"SocksLayer", "Http1Layer">> /\ pc = "layer_start"
    /\ scheme = PyStr("http")

\* C40: get_layer returns Http1Layer for port 80 and for every port listed
\* under http_port in the configuration, and raises nothing for any port,
\* whichever of the keys http_port and https_port the configuration holds.
C40_GetLayerTotal ==
    handler.op = "get_layer"
    => /\ handler.exc = "none"
       /\ handler.layer \in {"Http1Layer", "ForwardLayer"}
       /\ (\/ handler.port = 80
           \/ InList(handler.port, handler.config.http_port.v))
          => handler.layer = "Http1Layer"

====
